---- MODULE Spec2Model ----
(***************************************************************************)
(* Model of @sas/logger: the wide-event builder (core/WideEvent.ts), the   *)
(* request-scoped context (core/context.ts), the Axiom transport adapter   *)
(* (adapters/axiom.ts) and the framework wrappers (middleware/next.ts,     *)
(* middleware/vercel.ts, middleware/express.ts).                           *)
(*                                                                         *)
(* The specifications share the variables:                                 *)
(*   SpecBuilder  one WideEventBuilder driven by arbitrary call sequences  *)
(*   SpecMerge    one event, every sequence of merging calls, logged       *)
(*   SpecSample   defaultShouldSample applied to every event and option    *)
(*   SpecContext  nested eventStorage.run scopes on one call chain         *)
(*   SpecAdapter  one AxiomAdapter driven by send / flush / timer / fetch  *)
(*   SpecRequest  one request through each wrapper, every configuration,   *)
(*                every way the handler can end                            *)
(*   SpecWrap     concurrent requests through the serverless wrappers      *)
(*                                                                         *)
(* calls is the log of the calls a specification makes with what they      *)
(* were given and what they returned; scopes is the chain of the           *)
(* eventStorage.run bodies that are executing, innermost last.             *)
(***************************************************************************)
EXTENDS Integers, Sequences, FiniteSets, TLC

VARIABLES now, builders, store, adapter, nextId, framework, globalConfig, reqs,
          calls, scopes

vars == <<now, builders, store, adapter, nextId, framework, globalConfig, reqs,
          calls, scopes>>

----------------------------------------------------------------------------
(* Bounds of the model *)

\* the wall clock runs from 0 to MaxTime
MaxTime == 2
\* number of send() calls made directly on the adapter in SpecAdapter
MaxSends == 11
\* number of ingest requests the adapter may issue in SpecAdapter
MaxFetches == 3
\* number of concurrent requests in SpecWrap
MaxRequests == 2
\* number of enrichEvent / setEventError calls a handler makes
MaxHandlerSteps == 1
\* number of calls logged in SpecMerge and SpecContext
MaxCalls == 3
\* number of ingest requests the adapter may issue in SpecLive
MaxLiveFetches == 2

----------------------------------------------------------------------------
(* Event model and builder: core/WideEvent.ts *)

NoError ==
  [present |-> FALSE, type |-> "", message |-> "", stack |-> "", retriable |-> FALSE]

Outcomes == {"success", "warning", "error"}

StatusCodes == {200, 302, 399, 400, 404, 499, 500, 503}

\* Error objects are told apart by their message; ErrorName is error.name
\* (empty for an error whose name was cleared) and ErrorStack error.stack
Errors == {"db timeout", "boom"}

ErrorName(message) ==
  IF message = "db timeout" THEN "TimeoutError"
  ELSE IF message = "boom" THEN ""
  ELSE "Error"

ErrorStack(message) == <<"stack of", message>>

\* an optional argument: omitted, or given with a value
Omitted == << >>

Given(v) == <<v>>

\* the ways the retriable argument is passed
Retriables == {Omitted, Given(TRUE), Given(FALSE)}

\* a parameter declared with a default value (retriable = false)
OrDefault(arg, default) == IF arg = Omitted THEN default ELSE arg[1]

\* a spread written the wrong way round, { ...b, ...a }: the first write wins
MergeKeepsFirst(a, b) ==
  [k \in (DOMAIN a) \cup (DOMAIN b) |-> IF k \in DOMAIN a THEN a[k] ELSE b[k]]

\* an assignment instead of a spread: the new mapping replaces the old one
MergeReplaces(a, b) == b

\* key-wise last-write-wins shallow merge: { ...a, ...b }
Merge(a, b) ==
  [k \in (DOMAIN a) \cup (DOMAIN b) |-> IF k \in DOMAIN b THEN b[k] ELSE a[k]]

EmptyMap == [k \in {} |-> 0]

\* generateTraceId(): the n-th identifier the generator gives out
generateTraceId(n) == ToString(n)

\* a base event whose request.status_code starts at 0
createBaseEventNoStatus(id) ==
  [event_id      |-> id,
   trace_id      |-> generateTraceId(id),
   method        |-> "UNKNOWN",
   path          |-> "/",
   query         |-> Omitted,
   ip            |-> Omitted,
   user_agent    |-> Omitted,
   status_code   |-> 0,
   duration_ms   |-> 0,
   outcome       |-> "success",
   error         |-> NoError,
   user          |-> EmptyMap,
   business      |-> EmptyMap,
   performance   |-> EmptyMap,
   feature_flags |-> EmptyMap]

\* id stands for what the two generators return at this construction; the
\* optional fields (error, user, business, performance, feature_flags) are
\* absent: no error, empty mappings; so are request.query, request.ip and
\* request.user_agent (Omitted)
createBaseEvent(id) ==
  [event_id    |-> id,
   trace_id    |-> generateTraceId(id),
   method      |-> "UNKNOWN",
   path        |-> "/",
   query       |-> Omitted,
   ip          |-> Omitted,
   user_agent  |-> Omitted,
   status_code |-> 200,
   duration_ms |-> 0,
   outcome     |-> "success",
   error       |-> NoError,
   user          |-> EmptyMap,
   business      |-> EmptyMap,
   performance   |-> EmptyMap,
   feature_flags |-> EmptyMap]

WideEventBuilder(id, t) == [event |-> createBaseEvent(id), startTime |-> t]

\* the first of the values that is given and truthy (a || b || ...), else
\* Omitted
FirstGiven(args) ==
  LET given == {i \in 1 .. Len(args) : args[i] # Omitted /\ args[i] # Given("")} IN
  IF given = {} THEN Omitted
  ELSE args[CHOOSE i \in given : \A j \in given : i <= j]

\* request.headers.get(name)
HeaderGet(request, name) ==
  IF name \in DOMAIN request.headers THEN Given(request.headers[name]) ELSE Omitted

\* fromRequest(request, traceId?): request is the previous request object
\* spread, with method, path, query (the search parameters, always an
\* object) and user_agent (the header || undefined) written over it;
\* trace_id is traceId || x-trace-id || x-request-id || generateTraceId(),
\* fresh being what the generator returns on this call
fromRequest(ev, request, traceId, fresh) ==
  LET up == FirstGiven(<<traceId, HeaderGet(request, "x-trace-id"),
                         HeaderGet(request, "x-request-id")>>)
  IN [ev EXCEPT !.method = request.method,
                !.path = request.path,
                !.query = Given(request.query),
                !.user_agent = FirstGiven(<<HeaderGet(request, "user-agent")>>),
                !.trace_id = IF up = Omitted THEN generateTraceId(fresh) ELSE up[1]]

\* fromRawRequest(details): request is the previous request object spread,
\* with method, path, query, ip and user_agent written over it, given or
\* not; trace_id only if details.traceId is given and truthy
fromRawRequest(ev, details) ==
  LET up == FirstGiven(<<details.traceId>>) IN
  [ev EXCEPT !.method = details.method,
             !.path = details.path,
             !.query = details.query,
             !.ip = details.ip,
             !.user_agent = details.userAgent,
             !.trace_id = IF up = Omitted THEN @ ELSE up[1]]

\* withUser that merges into the previous user
withUserMerges(ev, user) == [ev EXCEPT !.user = Merge(@, user)]

\* this.event.user = user
withUser(ev, user) == [ev EXCEPT !.user = user]

withBusiness(ev, business) == [ev EXCEPT !.business = Merge(@, business)]

withPerformance(ev, performance) == [ev EXCEPT !.performance = Merge(@, performance)]

withFeatureFlags(ev, flags) == [ev EXCEPT !.feature_flags = Merge(@, flags)]

\* error.name || "Error"
ErrorType(message) == IF ErrorName(message) = "" THEN "Error" ELSE ErrorName(message)

withError(ev, message, retriable) ==
  [ev EXCEPT !.outcome = "error",
             !.error = [present   |-> TRUE,
                        type      |-> ErrorType(message),
                        message   |-> message,
                        stack     |-> ErrorStack(message),
                        retriable |-> OrDefault(retriable, FALSE)]]

\* withStatusCode that records the code and leaves the outcome alone
withStatusCodeOnly(ev, statusCode) == [ev EXCEPT !.status_code = statusCode]

\* withStatusCode that derives the outcome from the code alone: a code below
\* 400 sets it back to "success"
withStatusCodeResets(ev, statusCode) ==
  LET e1 == [ev EXCEPT !.status_code = statusCode] IN
  IF statusCode >= 500 THEN [e1 EXCEPT !.outcome = "error"]
  ELSE IF statusCode >= 400 THEN [e1 EXCEPT !.outcome = "warning"]
  ELSE [e1 EXCEPT !.outcome = "success"]

withStatusCode(ev, statusCode) ==
  LET e1 == [ev EXCEPT !.status_code = statusCode] IN
  IF statusCode >= 500 THEN [e1 EXCEPT !.outcome = "error"]
  ELSE IF statusCode >= 400 THEN [e1 EXCEPT !.outcome = "warning"]
  ELSE e1

\* EnrichmentData: a record with any of these fields, each a partial mapping
DataFields == {"user", "business", "performance", "feature_flags"}

\* if (data.f) this.event.f = { ...this.event.f, ...data.f }, field by field
enrich(ev, data) ==
  LET e1 == IF "user" \in DOMAIN data
            THEN [ev EXCEPT !.user = Merge(@, data.user)] ELSE ev
      e2 == IF "business" \in DOMAIN data
            THEN [e1 EXCEPT !.business = Merge(@, data.business)] ELSE e1
      e3 == IF "performance" \in DOMAIN data
            THEN [e2 EXCEPT !.performance = Merge(@, data.performance)] ELSE e2
  IN IF "feature_flags" \in DOMAIN data
     THEN [e3 EXCEPT !.feature_flags = Merge(@, data.feature_flags)] ELSE e3

build(ev, startTime, t) == [ev EXCEPT !.duration_ms = t - startTime]


----------------------------------------------------------------------------
(* Sampling: core/sampling.ts.  Rates and draws are in percent: the draw   *)
(* Math.random() is an integer 0..99 and sampleRate 0.1 is 10.             *)

SlowThresholdMs == 2000

SampleRatePct == 10

DefaultOptions ==
  [slowThresholdMs         |-> SlowThresholdMs,
   alwaysKeepSubscriptions |-> {"enterprise", "premium"},
   sampleRate              |-> SampleRatePct]

Draws == {0, 9, 10, 49, 50, 99}

\* defaultShouldSample without any always-keep rule: the draw alone decides
defaultShouldSampleDrawOnly(ev, options, draw) ==
  LET o == Merge(DefaultOptions, options) IN draw < o.sampleRate

\* defaultShouldSample without the slow-request and subscription rules
defaultShouldSampleErrorsOnly(ev, options, draw) ==
  LET o == Merge(DefaultOptions, options) IN
  IF ev.outcome = "error" THEN TRUE
  ELSE IF ev.status_code >= 500 THEN TRUE
  ELSE IF ev.error.present THEN TRUE
  ELSE draw < o.sampleRate

\* defaultShouldSample that takes its defaults with ||: a sampleRate of 0 is
\* falsy and becomes the default rate
defaultShouldSampleFalsyDefault(ev, options, draw) ==
  LET o == Merge(DefaultOptions, options)
      rate == IF o.sampleRate = 0 THEN SampleRatePct ELSE o.sampleRate
  IN
  IF ev.outcome = "error" THEN TRUE
  ELSE IF ev.status_code >= 500 THEN TRUE
  ELSE IF ev.error.present THEN TRUE
  ELSE IF ev.duration_ms > o.slowThresholdMs THEN TRUE
  ELSE IF /\ "subscription" \in DOMAIN ev.user
          /\ ev.user["subscription"] \in o.alwaysKeepSubscriptions THEN TRUE
  ELSE draw < rate

\* options is what the caller passed; destructuring fills each field it left
\* undefined with the default
defaultShouldSample(ev, options, draw) ==
  LET o == Merge(DefaultOptions, options) IN
  IF ev.outcome = "error" THEN TRUE
  ELSE IF ev.status_code >= 500 THEN TRUE
  ELSE IF ev.error.present THEN TRUE
  ELSE IF ev.duration_ms > o.slowThresholdMs THEN TRUE
  ELSE IF /\ "subscription" \in DOMAIN ev.user
          /\ ev.user["subscription"] \in o.alwaysKeepSubscriptions THEN TRUE
  ELSE draw < o.sampleRate

keepAll == TRUE

\* keepOnlyErrors that counts only server errors: status_code >= 500
keepOnlyServerErrors(ev) ==
  \/ ev.outcome = "error"
  \/ ev.status_code >= 500
  \/ ev.error.present

keepOnlyErrors(ev) ==
  \/ ev.outcome = "error"
  \/ ev.status_code >= 400
  \/ ev.error.present

----------------------------------------------------------------------------
(* Request-scoped context: core/context.ts.                                *)
(* An async context c is the continuation chain of one request (1..N) or   *)
(* the root context 0 that is outside every eventStorage.run scope.        *)
(* store[c] is the builder whose event eventStorage.run installed for c,   *)
(* 0 when none (getStore() returns undefined).                             *)

Contexts == 0 .. MaxRequests

Requests == 1 .. MaxRequests

NoBuilder == [event |-> createBaseEvent(0), startTime |-> 0]

Keys == {"action", "dealId"}

Vals == Requests

\* the non-empty partial mappings an enrichment call may pass
Partials ==
  UNION {[D -> Vals] : D \in (SUBSET Keys) \ {{}}}

\* a single shared variable instead of a binding per continuation: the event
\* of the scope entered last is current for every caller
getCurrentEventShared(c) ==
  LET open == {r \in Requests : store[r] # 0} IN
  IF open = {} THEN 0 ELSE CHOOSE r \in open : \A q \in open : q <= r

\* eventStorage.getStore() on the continuation of context c
getCurrentEvent(c) == store[c]

\* enrichEvent that falls back to the first request's event when none is in
\* scope
enrichEventFallback(c, data) ==
  LET b == IF getCurrentEvent(c) = 0 THEN 1 ELSE getCurrentEvent(c) IN
  [builders EXCEPT ![b].event = enrich(@, data)]

\* enrichEvent(data) called on the continuation of context c: no event in
\* scope, return; otherwise merge each field that data has
enrichEvent(c, data) ==
  LET b == getCurrentEvent(c) IN
  IF b = 0 THEN builders
  ELSE LET ev == builders[b].event
           e1 == IF "user" \in DOMAIN data
                 THEN [ev EXCEPT !.user = Merge(ev.user, data.user)] ELSE ev
           e2 == IF "business" \in DOMAIN data
                 THEN [e1 EXCEPT !.business = Merge(e1.business, data.business)]
                 ELSE e1
           e3 == IF "performance" \in DOMAIN data
                 THEN [e2 EXCEPT !.performance = Merge(e2.performance, data.performance)]
                 ELSE e2
           e4 == IF "feature_flags" \in DOMAIN data
                 THEN [e3 EXCEPT !.feature_flags =
                                    Merge(e3.feature_flags, data.feature_flags)]
                 ELSE e3
       IN [builders EXCEPT ![b].event = e4]

\* setEventError that records the error and leaves outcome as it is
setEventErrorKeepsOutcome(c, message, retriable) ==
  LET b == getCurrentEvent(c) IN
  IF b = 0 THEN builders
  ELSE [builders EXCEPT ![b].event.error =
          [present   |-> TRUE,
           type      |-> ErrorType(message),
           message   |-> message,
           stack     |-> ErrorStack(message),
           retriable |-> OrDefault(retriable, FALSE)]]

\* setEventError(error, retriable = false) called on the continuation of
\* context c
setEventError(c, message, retriable) ==
  LET b == getCurrentEvent(c) IN
  IF b = 0 THEN builders
  ELSE [builders EXCEPT ![b].event.outcome = "error",
                        ![b].event.error =
                          [present   |-> TRUE,
                           type      |-> IF ErrorName(message) = "" THEN "Error"
                                         ELSE ErrorName(message),
                           message   |-> message,
                           stack     |-> ErrorStack(message),
                           retriable |-> OrDefault(retriable, FALSE)]]

\* an eventStorage that keeps the event in one variable shared by all
\* continuations: run overwrites it for everyone and never restores it
runSetsGlobal(c, b) == [x \in Contexts |-> b]

\* eventStorage.run(event, body): body and what it schedules run on a
\* continuation c of their own, on which the event of builder b is current;
\* the binding of every other continuation stays as it is
run(c, b) == [store EXCEPT ![c] = b]

----------------------------------------------------------------------------
(* SpecBuilder: one builder, its event installed in context 1, driven by   *)
(* every sequence of builder and context calls.                            *)

InitBuilder ==
  /\ now = 0
  /\ builders = [r \in Requests |-> IF r = 1 THEN WideEventBuilder(1, 0) ELSE NoBuilder]
  /\ store = [c \in Contexts |-> IF c = 1 THEN 1 ELSE 0]
  /\ adapter = 0
  /\ nextId = 0
  /\ framework = "none"
  /\ globalConfig = 0
  /\ reqs = 0
  /\ calls = << >>
  /\ scopes = << >>

BWithStatusCode ==
  /\ \E code \in StatusCodes :
       builders' = [builders EXCEPT ![1].event = withStatusCode(@, code)]
  /\ UNCHANGED <<calls, scopes, now, store, adapter, nextId, framework, globalConfig, reqs>>

BWithError ==
  /\ \E m \in Errors, retriable \in Retriables :
       builders' = [builders EXCEPT ![1].event = withError(@, m, retriable)]
  /\ UNCHANGED <<calls, scopes, now, store, adapter, nextId, framework, globalConfig, reqs>>

BSetEventError ==
  /\ \E m \in Errors, retriable \in Retriables :
       builders' = setEventError(1, m, retriable)
  /\ UNCHANGED <<calls, scopes, now, store, adapter, nextId, framework, globalConfig, reqs>>

BWithBusiness ==
  /\ \E p \in Partials :
       builders' = [builders EXCEPT ![1].event = withBusiness(@, p)]
  /\ UNCHANGED <<calls, scopes, now, store, adapter, nextId, framework, globalConfig, reqs>>

BEnrichEvent ==
  /\ \E p \in Partials : builders' = enrichEvent(1, [business |-> p])
  /\ UNCHANGED <<calls, scopes, now, store, adapter, nextId, framework, globalConfig, reqs>>

BBuild ==
  /\ builders' = [builders EXCEPT ![1].event = build(@, builders[1].startTime, now)]
  /\ UNCHANGED <<calls, scopes, now, store, adapter, nextId, framework, globalConfig, reqs>>

Tick ==
  /\ now < MaxTime
  /\ now' = now + 1
  /\ UNCHANGED <<calls, scopes, builders, store, adapter, nextId, framework, globalConfig, reqs>>

NextBuilder ==
  \/ BWithStatusCode
  \/ BWithError
  \/ BSetEventError
  \/ BWithBusiness
  \/ BEnrichEvent
  \/ BBuild
  \/ Tick

SpecBuilder == InitBuilder /\ [][NextBuilder]_vars

Rank(o) == IF o = "success" THEN 0 ELSE IF o = "warning" THEN 1 ELSE 2

\* C1: per event, outcome never moves to a lower value along
\* success < warning < error, whatever withStatusCode / withError /
\* setEventError call is made next.
C1_OutcomeMonotonic ==
  [][Rank(builders'[1].event.outcome) >= Rank(builders[1].event.outcome)]_vars

\* the error record that the call (error, retriable) is to leave on the event
ErrorRecord(message, retriable) ==
  [present   |-> TRUE,
   type      |-> IF ErrorName(message) = "" THEN "Error" ELSE ErrorName(message),
   message   |-> message,
   stack     |-> ErrorStack(message),
   retriable |-> IF retriable = Omitted THEN FALSE ELSE retriable[1]]

\* C15: on every event a builder can hold, whatever its outcome, withError
\* and setEventError (the event in scope) both give the event with outcome
\* "error" and error set to the given error's type, message and stack and to
\* retriable, false when the argument is omitted, and nothing else changed;
\* and every step that writes the error leaves the outcome "error".
C15_ErrorSetsOutcome ==
  /\ [](\A m \in Errors, retriable \in Retriables :
         LET ev == builders[1].event
             want == [ev EXCEPT !.outcome = "error",
                                !.error = ErrorRecord(m, retriable)]
         IN /\ withError(ev, m, retriable) = want
            /\ setEventError(1, m, retriable) = [builders EXCEPT ![1].event = want])
  /\ [][builders'[1].event.error # builders[1].event.error
        => /\ builders'[1].event.outcome = "error"
           /\ \E m \in Errors, retriable \in Retriables :
                builders'[1].event.error = ErrorRecord(m, retriable)]_vars

\* the event was a "warning" with status 404 and then got a retriable error
\* whose name is empty
C15_Witness ==
  /\ builders[1].event.status_code = 404
  /\ builders[1].event.outcome = "error"
  /\ builders[1].event.error = ErrorRecord("boom", Given(TRUE))

\* C16: on every event a builder can hold, withStatusCode(code) stores the
\* code; a code of 500 or more makes outcome "error"; a code of 400 to 499
\* makes a "success" event a "warning"; a code below 400 leaves outcome as it
\* is; nothing but status_code and outcome changes.
C16_StatusCodeOutcome ==
  /\ [](\A code \in StatusCodes :
         LET ev == builders[1].event
             e == withStatusCode(ev, code)
         IN /\ e.status_code = code
            /\ code >= 500 => e.outcome = "error"
            /\ (code >= 400 /\ code <= 499 /\ ev.outcome = "success")
                 => e.outcome = "warning"
            /\ code < 400 => e.outcome = ev.outcome
            /\ [e EXCEPT !.status_code = 0, !.outcome = ""]
                 = [ev EXCEPT !.status_code = 0, !.outcome = ""])
  /\ [][builders'[1].event.status_code # builders[1].event.status_code
        => LET code == builders'[1].event.status_code IN
           /\ code >= 500 => builders'[1].event.outcome = "error"
           /\ (code >= 400 /\ code <= 499 /\ builders[1].event.outcome = "success")
                => builders'[1].event.outcome = "warning"
           /\ code < 400 => builders'[1].event.outcome = builders[1].event.outcome]_vars

\* a status of 500 or more made the outcome "error" and a later status
\* below 400 left it so: no error was ever set on this event
C16_Witness ==
  /\ builders[1].event.status_code = 302
  /\ builders[1].event.outcome = "error"
  /\ ~builders[1].event.error.present

\* C24: duration_ms is never negative, and it is measured once: a step that
\* changes it finds it unmeasured (0) and sets it to the time elapsed since
\* the builder was constructed; a build() at a later time leaves a measured
\* duration as it is.
C24_DurationMeasuredOnce ==
  /\ [](builders[1].event.duration_ms >= 0)
  /\ [][builders'[1].event.duration_ms # builders[1].event.duration_ms
        => /\ builders[1].event.duration_ms = 0
           /\ builders'[1].event.duration_ms = now - builders[1].startTime]_vars

\* C28: an event that carries an error has outcome "error", after every
\* sequence of withError, setEventError, withStatusCode and enrichment calls.
C28_ErrorImpliesOutcomeError ==
  builders[1].event.error.present => builders[1].event.outcome = "error"

----------------------------------------------------------------------------
(* SpecMerge: one builder, its event installed in context 1, and every     *)
(* sequence of up to MaxCalls merging calls: withBusiness, withPerformance,*)
(* withFeatureFlags, enrich and enrichEvent.  calls logs the data of each  *)
(* call, a with* call as the one-field data it amounts to.                 *)

MergeFields == {"business", "performance", "feature_flags"}

\* the non-empty partial mappings a merging call may pass: each key left
\* out or given one of two values
MergePartials ==
  UNION {[D -> {1, 2}] : D \in (SUBSET Keys) \ {{}}}

\* the data passed to enrich / enrichEvent: one partial mapping, given for
\* one field or for every field at once
EnrichData ==
  {[f \in fs |-> p] : fs \in {{f} : f \in MergeFields} \cup {DataFields},
                      p \in MergePartials}

InitMerge == InitBuilder

MWithBusiness ==
  /\ Len(calls) < MaxCalls
  /\ \E p \in MergePartials :
       /\ builders' = [builders EXCEPT ![1].event = withBusiness(@, p)]
       /\ calls' = Append(calls, [business |-> p])
  /\ UNCHANGED <<scopes, now, store, adapter, nextId, framework, globalConfig, reqs>>

MWithPerformance ==
  /\ Len(calls) < MaxCalls
  /\ \E p \in MergePartials :
       /\ builders' = [builders EXCEPT ![1].event = withPerformance(@, p)]
       /\ calls' = Append(calls, [performance |-> p])
  /\ UNCHANGED <<scopes, now, store, adapter, nextId, framework, globalConfig, reqs>>

MWithFeatureFlags ==
  /\ Len(calls) < MaxCalls
  /\ \E p \in MergePartials :
       /\ builders' = [builders EXCEPT ![1].event = withFeatureFlags(@, p)]
       /\ calls' = Append(calls, [feature_flags |-> p])
  /\ UNCHANGED <<scopes, now, store, adapter, nextId, framework, globalConfig, reqs>>

MEnrich ==
  /\ Len(calls) < MaxCalls
  /\ \E data \in EnrichData :
       /\ builders' = [builders EXCEPT ![1].event = enrich(@, data)]
       /\ calls' = Append(calls, data)
  /\ UNCHANGED <<scopes, now, store, adapter, nextId, framework, globalConfig, reqs>>

MEnrichEvent ==
  /\ Len(calls) < MaxCalls
  /\ \E data \in EnrichData :
       /\ builders' = enrichEvent(1, data)
       /\ calls' = Append(calls, data)
  /\ UNCHANGED <<scopes, now, store, adapter, nextId, framework, globalConfig, reqs>>

NextMerge ==
  \/ MWithBusiness
  \/ MWithPerformance
  \/ MWithFeatureFlags
  \/ MEnrich
  \/ MEnrichEvent

SpecMerge == InitMerge /\ [][NextMerge]_vars

\* the calls of log that gave field f a value for key k
Writers(log, f, k) ==
  {i \in 1 .. Len(log) : f \in DOMAIN log[i] /\ k \in DOMAIN log[i][f]}

\* the key-wise last-write-wins union of the inputs that log gave to field f
LastWriteWins(log, f) ==
  LET keys == {k \in Keys : Writers(log, f, k) # {}} IN
  [k \in keys |->
     LET last == CHOOSE i \in Writers(log, f, k) : \A j \in Writers(log, f, k) : j <= i
     IN log[last][f][k]]

\* C13: after every sequence of withBusiness / withPerformance /
\* withFeatureFlags / enrich / enrichEvent calls, each of the three mappings
\* is the key-wise last-write-wins union of the inputs the calls gave it, and
\* no call removes a key that a mapping had before it.
C13_LastWriteWinsUnion ==
  /\ [](\A f \in MergeFields : builders[1].event[f] = LastWriteWins(calls, f))
  /\ [][\A f \in MergeFields :
          DOMAIN builders[1].event[f] \subseteq DOMAIN builders'[1].event[f]]_vars

\* three calls wrote business: the first set action and dealId, the later
\* ones overwrote action and left dealId alone
C13_Witness ==
  /\ Len(calls) = 3
  /\ \A i \in 1 .. 3 : "business" \in DOMAIN calls[i] /\ "action" \in DOMAIN calls[i].business
  /\ DOMAIN calls[1].business = Keys
  /\ DOMAIN calls[2].business = {"action"}
  /\ DOMAIN calls[3].business = {"action"}
  /\ calls[1].business["action"] # calls[3].business["action"]
  /\ calls[2].business["action"] # calls[3].business["action"]
  /\ builders[1].event.business["action"] = calls[3].business["action"]
  /\ builders[1].event.business["dealId"] = calls[1].business["dealId"]

\* the event a fresh builder holds after the enrich calls of log, in order
Replay(log) ==
  LET RECURSIVE after(_)
      after(n) == IF n = 0 THEN createBaseEvent(1) ELSE enrich(after(n - 1), log[n])
  IN after(Len(log))

\* two data agree when they give the same value to every key that both give
\* to the same field
Agree(p, q) ==
  \A f \in (DOMAIN p) \cap (DOMAIN q) :
    \A k \in (DOMAIN p[f]) \cap (DOMAIN q[f]) : p[f][k] = q[f][k]

\* the last two calls of the log, exchanged
SwapLastTwo(log) ==
  LET n == Len(log) IN SubSeq(log, 1, n - 2) \o <<log[n], log[n - 1]>>

\* C14 as claimed: the same partial applied twice gives the event that one
\* application gives, and any two partials applied in either order give the
\* same event.
C14_IdempotentOrderIndependent ==
  Len(calls) >= 2 =>
    LET n == Len(calls) IN
    /\ calls[n - 1] = calls[n] =>
         builders[1].event = Replay(SubSeq(calls, 1, n - 1))
    /\ builders[1].event = Replay(SwapLastTwo(calls))

\* C14 amended: the same partial applied twice gives the event that one
\* application gives, and two partials that agree on every key they both
\* set applied in either order give the same event.
C14_IdempotentCommutesWhenAgreeing ==
  Len(calls) >= 2 =>
    LET n == Len(calls) IN
    /\ calls[n - 1] = calls[n] =>
         builders[1].event = Replay(SubSeq(calls, 1, n - 1))
    /\ Agree(calls[n - 1], calls[n]) =>
         builders[1].event = Replay(SwapLastTwo(calls))

\* on an event that has business.action, one partial was applied that sets
\* action again and then another that sets dealId
C14_Witness ==
  /\ Len(calls) = 3
  /\ \A i \in 1 .. 3 : DOMAIN calls[i] = {"business"}
  /\ DOMAIN calls[1].business = {"action"}
  /\ DOMAIN calls[2].business = {"action"}
  /\ DOMAIN calls[3].business = {"dealId"}
  /\ calls[1].business["action"] # calls[2].business["action"]
  /\ DOMAIN builders[1].event.business = Keys

----------------------------------------------------------------------------
(* SpecContext: eventStorage.run scopes nested on one call chain, as when  *)
(* a wrapped handler calls another wrapped handler.  scopes lists the      *)
(* bodies that are executing, outermost first, each with its continuation  *)
(* (1 for the outermost body, 2 for the body it called, ...) and the       *)
(* builder whose event its run installed.  Code runs either in the         *)
(* innermost body or on the root continuation 0, which no run encloses     *)
(* (module code, a timer started at load time).  calls logs each           *)
(* getCurrentEvent / enrichEvent / setEventError call: the continuation it *)
(* was made on, the event its nearest enclosing run installed (0: none)    *)
(* and the event the call found current.                                   *)

\* the continuation of the innermost executing body
Current == IF scopes = << >> THEN 0 ELSE scopes[Len(scopes)].context

\* the event installed by the nearest run enclosing continuation c
Enclosing(c) == IF c = 0 THEN 0 ELSE scopes[Len(scopes)].event

InitContext ==
  /\ now = 0
  /\ builders = [r \in Requests |-> NoBuilder]
  /\ store = [c \in Contexts |-> 0]
  /\ adapter = 0
  /\ nextId = 0
  /\ framework = "none"
  /\ globalConfig = 0
  /\ reqs = 0
  /\ calls = << >>
  /\ scopes = << >>

\* the innermost body (or the root) enters eventStorage.run with the event
\* of a new builder b; each of the MaxRequests builders is created once
CRun ==
  /\ Len(scopes) < MaxRequests
  /\ \E b \in Requests :
       /\ builders[b] = NoBuilder
       /\ builders' = [builders EXCEPT ![b] = WideEventBuilder(b, now)]
       /\ store' = run(Len(scopes) + 1, b)
       /\ scopes' = Append(scopes, [context |-> Len(scopes) + 1, event |-> b])
  /\ UNCHANGED <<calls, now, adapter, nextId, framework, globalConfig, reqs>>

\* the innermost body ends: its caller goes on, on its own continuation
CBodyEnds ==
  /\ scopes # << >>
  /\ scopes' = SubSeq(scopes, 1, Len(scopes) - 1)
  /\ UNCHANGED <<calls, now, builders, store, adapter, nextId, framework,
                 globalConfig, reqs>>

CGetCurrentEvent ==
  /\ Len(calls) < MaxCalls
  /\ \E c \in {0, Current} :
       calls' = Append(calls, [op |-> "getCurrentEvent", context |-> c,
                               scope |-> Enclosing(c), got |-> getCurrentEvent(c)])
  /\ UNCHANGED <<scopes, now, builders, store, adapter, nextId, framework,
                 globalConfig, reqs>>

CEnrichEvent ==
  /\ Len(calls) < MaxCalls
  /\ \E c \in {0, Current} :
       /\ builders' = enrichEvent(c, [business |-> [k \in {"action"} |-> 1]])
       /\ calls' = Append(calls, [op |-> "enrichEvent", context |-> c,
                                  scope |-> Enclosing(c), got |-> getCurrentEvent(c)])
  /\ UNCHANGED <<scopes, now, store, adapter, nextId, framework, globalConfig, reqs>>

CSetEventError ==
  /\ Len(calls) < MaxCalls
  /\ \E c \in {0, Current} :
       /\ builders' = setEventError(c, "boom", Omitted)
       /\ calls' = Append(calls, [op |-> "setEventError", context |-> c,
                                  scope |-> Enclosing(c), got |-> getCurrentEvent(c)])
  /\ UNCHANGED <<scopes, now, store, adapter, nextId, framework, globalConfig, reqs>>

NextContext ==
  \/ CRun
  \/ CBodyEnds
  \/ CGetCurrentEvent
  \/ CEnrichEvent
  \/ CSetEventError

SpecContext == InitContext /\ [][NextContext]_vars

\* C17: an enrichEvent or setEventError call made where no event is in
\* scope changes nothing: no builder's event (of a body still executing or
\* of one that has ended), no binding and no transport state; the call is
\* only logged, having found no current event.
C17_NoScopeNoOp ==
  [][(/\ calls' # calls
      /\ calls'[Len(calls')].scope = 0
      /\ calls'[Len(calls')].op \in {"enrichEvent", "setEventError"})
     => /\ builders' = builders
        /\ store' = store
        /\ adapter' = adapter
        /\ scopes' = scopes
        /\ calls'[Len(calls')].got = 0]_vars

\* a body enriched its event, and then enrichEvent and setEventError were
\* called on the root continuation while that body was still executing
C17_Witness ==
  /\ Len(calls) = 3
  /\ scopes # << >>
  /\ calls[1].op = "enrichEvent" /\ calls[1].scope # 0
  /\ calls[2].op = "enrichEvent" /\ calls[2].scope = 0
  /\ calls[3].op = "setEventError" /\ calls[3].scope = 0
  /\ "action" \in DOMAIN builders[scopes[1].event].event.business

\* C18: getCurrentEvent returns the event installed by the nearest run that
\* encloses the calling continuation and nothing (0) on a continuation that
\* no run encloses; inside a nested run it is the inner event, and once the
\* inner body has ended it is the outer event again.
C18_NearestEnclosingScope ==
  /\ getCurrentEvent(0) = 0
  /\ getCurrentEvent(Current) = Enclosing(Current)
  /\ \A i \in 1 .. Len(calls) : calls[i].got = calls[i].scope

\* getCurrentEvent was called in the outer body, in the inner body, and in
\* the outer body again after the inner one had ended
C18_Witness ==
  /\ Len(calls) = 3
  /\ Len(scopes) = 1
  /\ \A i \in 1 .. 3 : calls[i].op = "getCurrentEvent"
  /\ calls[1].context = 1 /\ calls[1].got = scopes[1].event
  /\ calls[2].context = 2 /\ calls[2].got # scopes[1].event /\ calls[2].got # 0
  /\ calls[3].context = 1 /\ calls[3].got = scopes[1].event

----------------------------------------------------------------------------
(* SpecSample: defaultShouldSample applied once to an event, with options  *)
(* and a random draw.  The event is any WideEvent (the function is public, *)
(* so also events no builder produces); calls logs the call.               *)

SampleEvents ==
  {[createBaseEvent(1) EXCEPT !.outcome = o, !.status_code = sc, !.error = er,
                              !.duration_ms = d, !.user = u] :
     o \in Outcomes, sc \in {200, 404, 499, 500},
     er \in {NoError, withError(createBaseEvent(1), "boom", Omitted).error},
     d \in {500, SlowThresholdMs, SlowThresholdMs + 1, 2500},
     u \in {EmptyMap, [id |-> "u1"], [subscription |-> "free"],
            [subscription |-> "premium"], [subscription |-> "enterprise"]}}

\* an options object: each field is left out or given
SampleOptions ==
  LET Field(name, values) == {EmptyMap} \cup {[k \in {name} |-> v] : v \in values} IN
  {Merge(Merge(a, b), c) :
     a \in Field("sampleRate", {0, 50, 100}),
     b \in Field("slowThresholdMs", {1000, 2500}),
     c \in Field("alwaysKeepSubscriptions", {{}, {"free"}})}

InitSample ==
  /\ now = 0
  /\ \E ev \in SampleEvents :
       builders = [r \in Requests |-> IF r = 1 THEN [event |-> ev, startTime |-> 0]
                                      ELSE NoBuilder]
  /\ store = [c \in Contexts |-> 0]
  /\ adapter = 0
  /\ nextId = 0
  /\ framework = "none"
  /\ globalConfig = 0
  /\ reqs = 0
  /\ calls = << >>
  /\ scopes = << >>

SDefaultShouldSample ==
  /\ calls = << >>
  /\ \E options \in SampleOptions, draw \in Draws :
       calls' = <<[event   |-> builders[1].event,
                   options |-> options,
                   draw    |-> draw,
                   result  |-> defaultShouldSample(builders[1].event, options, draw)]>>
  /\ UNCHANGED <<scopes, now, builders, store, adapter, nextId, framework,
                 globalConfig, reqs>>

NextSample == SDefaultShouldSample

SpecSample == InitSample /\ [][NextSample]_vars

\* the value an option has for the call: the one given, else the default
OptionOr(options, name, default) ==
  IF name \in DOMAIN options THEN options[name] ELSE default

\* one of the always-keep rules applies to the event of call c
AlwaysKept(c) ==
  \/ c.event.outcome = "error"
  \/ c.event.status_code >= 500
  \/ c.event.error.present
  \/ c.event.duration_ms > OptionOr(c.options, "slowThresholdMs", SlowThresholdMs)
  \/ \E sub \in OptionOr(c.options, "alwaysKeepSubscriptions",
                          {"enterprise", "premium"}) :
       /\ "subscription" \in DOMAIN c.event.user
       /\ c.event.user["subscription"] = sub

\* C19: defaultShouldSample returns true, whatever the sampleRate (0
\* included) and the random draw, when the event has outcome "error", or a
\* status_code of 500 or more, or an error, or a duration_ms above
\* slowThresholdMs, or a user.subscription in alwaysKeepSubscriptions.
C19_AlwaysKeepRules ==
  \A i \in 1 .. Len(calls) : AlwaysKept(calls[i]) => calls[i].result = TRUE

\* a slow but otherwise ordinary event was kept at sampleRate 0 on the
\* highest draw
C19_Witness ==
  /\ Len(calls) = 1
  /\ calls[1].event.outcome = "success"
  /\ calls[1].event.status_code = 200
  /\ ~calls[1].event.error.present
  /\ calls[1].event.duration_ms = 2500
  /\ calls[1].event.user = EmptyMap
  /\ calls[1].options = [sampleRate |-> 0]
  /\ calls[1].draw = 99
  /\ calls[1].result = TRUE

\* C20: for an event that no always-keep rule applies to (a duration_ms
\* equal to slowThresholdMs included), defaultShouldSample returns true
\* exactly when the draw is below sampleRate: never at sampleRate 0, always
\* at sampleRate 1 (100 percent).
C20_RandomSampleOtherwise ==
  \A i \in 1 .. Len(calls) :
    ~AlwaysKept(calls[i]) =>
      LET rate == OptionOr(calls[i].options, "sampleRate", SampleRatePct) IN
      /\ calls[i].result = (calls[i].draw < rate)
      /\ rate = 0 => calls[i].result = FALSE
      /\ rate = 100 => calls[i].result = TRUE

\* an event whose duration equals the default threshold was dropped at
\* sampleRate 0 on the lowest draw
C20_Witness ==
  /\ Len(calls) = 1
  /\ calls[1].event.outcome = "warning"
  /\ calls[1].event.status_code = 499
  /\ ~calls[1].event.error.present
  /\ calls[1].event.duration_ms = SlowThresholdMs
  /\ calls[1].event.user = [subscription |-> "free"]
  /\ calls[1].options = [sampleRate |-> 0]
  /\ calls[1].draw = 0
  /\ calls[1].result = FALSE

----------------------------------------------------------------------------
(* SpecPolicy: the two other sampling policies the package exports,        *)
(* keepAll and keepOnlyErrors, each applied once to an event; calls logs   *)
(* the call.                                                               *)

InitPolicy == InitSample

SKeepAll ==
  /\ calls = << >>
  /\ calls' = <<[fn |-> "keepAll", event |-> builders[1].event, result |-> keepAll]>>
  /\ UNCHANGED <<scopes, now, builders, store, adapter, nextId, framework,
                 globalConfig, reqs>>

SKeepOnlyErrors ==
  /\ calls = << >>
  /\ calls' = <<[fn     |-> "keepOnlyErrors",
                 event  |-> builders[1].event,
                 result |-> keepOnlyErrors(builders[1].event)]>>
  /\ UNCHANGED <<scopes, now, builders, store, adapter, nextId, framework,
                 globalConfig, reqs>>

NextPolicy ==
  \/ SKeepAll
  \/ SKeepOnlyErrors

SpecPolicy == InitPolicy /\ [][NextPolicy]_vars

\* C21: keepOnlyErrors returns true exactly for the events whose outcome is
\* "error", or whose status_code is 400 or more, or that carry an error (so
\* status 404 without an error is kept, status 200 with outcome "success"
\* and no error is dropped); keepAll returns true for every event.
C21_KeepOnlyErrorsKeepAll ==
  \A i \in 1 .. Len(calls) :
    LET ev == calls[i].event IN
    /\ calls[i].fn = "keepOnlyErrors" =>
         (calls[i].result <=> (\/ ev.outcome = "error"
                               \/ ev.status_code >= 400
                               \/ ev.error.present))
    /\ (calls[i].fn = "keepOnlyErrors" /\ ev.status_code = 404) => calls[i].result
    /\ (/\ calls[i].fn = "keepOnlyErrors"
        /\ ev.status_code = 200
        /\ ev.outcome = "success"
        /\ ~ev.error.present) => ~calls[i].result
    /\ calls[i].fn = "keepAll" => calls[i].result

\* keepOnlyErrors kept an event with status 404, no error and an outcome
\* that is not "error"
C21_Witness ==
  /\ Len(calls) = 1
  /\ calls[1].fn = "keepOnlyErrors"
  /\ calls[1].event.status_code = 404
  /\ calls[1].event.outcome = "warning"
  /\ ~calls[1].event.error.present
  /\ calls[1].result = TRUE

----------------------------------------------------------------------------
(* Identity: one builder from its construction on.  builders[1] is         *)
(* NoBuilder until the constructor runs; calls logs the constructor and    *)
(* every later call with its arguments.  nextId counts the identifiers     *)
(* generated so far: every generated identifier is a new one.              *)

\* Web API requests: method, path, and the correlation headers they carry
WebRequests ==
  {[method |-> "GET", path |-> "/x", query |-> EmptyMap, headers |-> h] :
     h \in {EmptyMap,
            [n \in {"x-trace-id"} |-> "hdr-trace"],
            [n \in {"x-request-id"} |-> "hdr-request"],
            [n \in {"x-trace-id", "x-request-id"} |->
               IF n = "x-trace-id" THEN "hdr-trace" ELSE "hdr-request"]}}

\* the details object that fromRawRequest takes
RawDetails ==
  {[method |-> "POST", path |-> "/y", query |-> Omitted, ip |-> Omitted,
    userAgent |-> Omitted, traceId |-> t] :
     t \in {Omitted, Given(""), Given("raw-trace")}}

InitIdentity ==
  /\ now = 0
  /\ builders = [r \in Requests |-> NoBuilder]
  /\ store = [c \in Contexts |-> 0]
  /\ adapter = 0
  /\ nextId = 0
  /\ framework = "none"
  /\ globalConfig = 0
  /\ reqs = 0
  /\ calls = << >>
  /\ scopes = << >>

\* new WideEventBuilder(config)
IConstruct ==
  /\ calls = << >>
  /\ nextId' = nextId + 1
  /\ builders' = [builders EXCEPT ![1] = WideEventBuilder(nextId', now)]
  /\ calls' = <<[op |-> "new"]>>
  /\ UNCHANGED <<scopes, now, store, adapter, framework, globalConfig, reqs>>

IFromRequest ==
  /\ calls # << >>
  /\ Len(calls) <= MaxCalls
  /\ \E request \in WebRequests, traceId \in {Omitted, Given("arg-trace")} :
       /\ builders' = [builders EXCEPT
                         ![1].event = fromRequest(@, request, traceId, nextId + 1)]
       /\ calls' = Append(calls, [op |-> "fromRequest", request |-> request,
                                  traceId |-> traceId])
       /\ nextId' = IF builders'[1].event.trace_id = generateTraceId(nextId + 1)
                       THEN nextId + 1 ELSE nextId
  /\ UNCHANGED <<scopes, now, store, adapter, framework, globalConfig, reqs>>

IFromRawRequest ==
  /\ calls # << >>
  /\ Len(calls) <= MaxCalls
  /\ \E details \in RawDetails :
       /\ builders' = [builders EXCEPT ![1].event = fromRawRequest(@, details)]
       /\ calls' = Append(calls, [op |-> "fromRawRequest", details |-> details])
  /\ UNCHANGED <<scopes, now, store, adapter, nextId, framework, globalConfig, reqs>>

IWithStatusCode ==
  /\ calls # << >>
  /\ Len(calls) <= MaxCalls
  /\ \E code \in StatusCodes :
       builders' = [builders EXCEPT ![1].event = withStatusCode(@, code)]
  /\ calls' = Append(calls, [op |-> "withStatusCode"])
  /\ UNCHANGED <<scopes, now, store, adapter, nextId, framework, globalConfig, reqs>>

IWithError ==
  /\ calls # << >>
  /\ Len(calls) <= MaxCalls
  /\ builders' = [builders EXCEPT ![1].event = withError(@, "boom", Omitted)]
  /\ calls' = Append(calls, [op |-> "withError"])
  /\ UNCHANGED <<scopes, now, store, adapter, nextId, framework, globalConfig, reqs>>

IEnrich ==
  /\ calls # << >>
  /\ Len(calls) <= MaxCalls
  /\ builders' = [builders EXCEPT
                    ![1].event = enrich(@, [business |-> [a |-> 1]])]
  /\ calls' = Append(calls, [op |-> "enrich"])
  /\ UNCHANGED <<scopes, now, store, adapter, nextId, framework, globalConfig, reqs>>

IBuild ==
  /\ calls # << >>
  /\ Len(calls) <= MaxCalls
  /\ builders' = [builders EXCEPT ![1].event = build(@, builders[1].startTime, now)]
  /\ calls' = Append(calls, [op |-> "build"])
  /\ UNCHANGED <<scopes, now, store, adapter, nextId, framework, globalConfig, reqs>>

NextIdentity ==
  \/ IConstruct
  \/ IFromRequest
  \/ IFromRawRequest
  \/ IWithStatusCode
  \/ IWithError
  \/ IEnrich
  \/ IBuild

SpecIdentity == InitIdentity /\ [][NextIdentity]_vars

\* the upstream correlation id that a logged call supplies, Omitted if none
Supplied(c) ==
  IF c.op = "fromRequest"
    THEN FirstGiven(<<c.traceId, HeaderGet(c.request, "x-trace-id"),
                      HeaderGet(c.request, "x-request-id")>>)
  ELSE IF c.op = "fromRawRequest" THEN FirstGiven(<<c.details.traceId>>)
  ELSE Omitted

\* C25: once the builder is constructed, no call changes event_id, and a
\* call changes trace_id only when it supplies an upstream correlation id,
\* to that id; fromRequest and fromRawRequest without one leave trace_id as
\* it was generated at construction.
C25_IdentifiersOnlyChangeToUpstreamId ==
  [][calls # << >> =>
       /\ builders'[1].event.event_id = builders[1].event.event_id
       /\ builders'[1].event.trace_id # builders[1].event.trace_id =>
            /\ Supplied(calls'[Len(calls')]) # Omitted
            /\ builders'[1].event.trace_id = Supplied(calls'[Len(calls')])[1]]_vars

\* C26: right after construction, before any other call, the event has
\* method "UNKNOWN", path "/", duration_ms 0, status_code 200, outcome
\* "success", and no user, business, performance, error or feature_flags.
C26_FreshEventDefaults ==
  calls = <<[op |-> "new"]>> =>
    LET ev == builders[1].event IN
    /\ ev.method = "UNKNOWN"
    /\ ev.path = "/"
    /\ ev.duration_ms = 0
    /\ ev.status_code = 200
    /\ ev.outcome = "success"
    /\ ev.user = EmptyMap
    /\ ev.business = EmptyMap
    /\ ev.performance = EmptyMap
    /\ ~ev.error.present
    /\ ev.feature_flags = EmptyMap

\* a builder was constructed and nothing else was called on it
C26_Witness ==
  /\ calls = <<[op |-> "new"]>>
  /\ builders[1].event.event_id = 1
  /\ builders[1].event.trace_id = generateTraceId(1)

\* C37: after every sequence of withStatusCode, withError, fromRequest,
\* fromRawRequest, enrich and build calls on a constructed builder,
\* status_code >= 500 implies outcome "error", a status_code from 400 to
\* 499 implies an outcome other than "success", and outcome "success"
\* implies status_code < 400 and no error.
C37_StatusBoundsOutcome ==
  calls # << >> =>
    LET ev == builders[1].event IN
    /\ ev.status_code >= 500 => ev.outcome = "error"
    /\ (ev.status_code >= 400 /\ ev.status_code <= 499) => ev.outcome # "success"
    /\ ev.outcome = "success" => (ev.status_code < 400 /\ ~ev.error.present)

\* after fromRequest, withError and then a 4xx status code, the event has
\* the error and an outcome that is not "success"
C37_Witness ==
  /\ Len(calls) = 4
  /\ calls[2].op = "fromRequest"
  /\ calls[3].op = "withError"
  /\ calls[4].op = "withStatusCode"
  /\ builders[1].event.status_code = 499
  /\ builders[1].event.error.present
  /\ builders[1].event.outcome # "success"

----------------------------------------------------------------------------
(* Transport: adapters/axiom.ts.                                           *)
(* The adapter record holds the object's fields (token, pendingEvents,     *)
(* flushTimeout) together with what its calls leave in the event loop and  *)
(* on the network: timers, the set of pending setTimeout handles, and      *)
(* fetches, the ingest requests issued so far, each with the batch it      *)
(* carries and its status ("inflight", "ok", "rejected" for a non-2xx      *)
(* response, "threw" for a network exception).  flushTimeout = 0 is null.  *)

BatchSize == 10

AxiomAdapter(token) ==
  [token         |-> token,
   pendingEvents |-> << >>,
   flushTimeout  |-> 0,
   timers        |-> {},
   fetches       |-> << >>]

\* this.flushTimeout = setTimeout(() => this.flush(), 100)
setTimeout(a) ==
  LET t == CHOOSE h \in 1 .. (Cardinality(a.timers) + 1) : h \notin a.timers IN
  [a EXCEPT !.timers = @ \cup {t}, !.flushTimeout = t]

\* a flush() that forgets the handle without calling clearTimeout
clearFlushTimeoutForgets(a) == [a EXCEPT !.flushTimeout = 0]

\* if (this.flushTimeout) { clearTimeout(this.flushTimeout); this.flushTimeout = null }
clearFlushTimeout(a) ==
  IF a.flushTimeout # 0
  THEN [a EXCEPT !.timers = @ \ {a.flushTimeout}, !.flushTimeout = 0]
  ELSE a

\* flush() that issues the request but forgets this.pendingEvents = []
flushKeepsQueue(a) ==
  LET a1 == clearFlushTimeout(a) IN
  IF Len(a1.pendingEvents) = 0 THEN a1
  ELSE IF ~a1.token THEN [a1 EXCEPT !.pendingEvents = << >>]
  ELSE [a1 EXCEPT !.fetches = Append(@, [events |-> a1.pendingEvents,
                                         status |-> "inflight"])]

\* flush() without the check for an empty queue: it posts an empty batch
flushSendsEmptyBatch(a) ==
  LET a1 == clearFlushTimeout(a) IN
  IF ~a1.token THEN [a1 EXCEPT !.pendingEvents = << >>]
  ELSE [a1 EXCEPT !.pendingEvents = << >>,
                  !.fetches = Append(@, [events |-> a1.pendingEvents,
                                         status |-> "inflight"])]

\* flush() up to its first await: the timer is cancelled, the queue is swapped
\* out and one ingest request is issued for it
flush(a) ==
  LET a1 == clearFlushTimeout(a) IN
  IF Len(a1.pendingEvents) = 0 THEN a1
  ELSE IF ~a1.token THEN [a1 EXCEPT !.pendingEvents = << >>]
  ELSE [a1 EXCEPT !.pendingEvents = << >>,
                  !.fetches = Append(@, [events |-> a1.pendingEvents,
                                         status |-> "inflight"])]

\* a flush whose caller is not made to wait for the ingest request
flushAwaitsNothing(a) == 0

\* the ingest request the promise returned by flush(a) waits for; 0 when
\* flush returns before any await
flushAwaits(a) ==
  IF Len(a.pendingEvents) = 0 \/ ~a.token THEN 0 ELSE Len(a.fetches) + 1

\* send() that flushes only above the batch size (> instead of >=)
sendFlushesLate(a, e) ==
  IF ~a.token THEN a
  ELSE LET a1 == [a EXCEPT !.pendingEvents = Append(@, e)] IN
       IF Len(a1.pendingEvents) > BatchSize THEN flush(a1)
       ELSE IF a1.flushTimeout = 0 THEN setTimeout(a1)
       ELSE a1

\* send() that schedules a timer on every call, scheduled already or not
sendAlwaysSchedules(a, e) ==
  IF ~a.token THEN a
  ELSE LET a1 == [a EXCEPT !.pendingEvents = Append(@, e)] IN
       IF Len(a1.pendingEvents) >= BatchSize THEN flush(a1)
       ELSE setTimeout(a1)

\* send() that puts the event at the head of the queue
sendPrepends(a, e) ==
  IF ~a.token THEN a
  ELSE LET a1 == [a EXCEPT !.pendingEvents = <<e>> \o @] IN
       IF Len(a1.pendingEvents) >= BatchSize THEN flush(a1)
       ELSE IF a1.flushTimeout = 0 THEN setTimeout(a1)
       ELSE a1

\* send() that never schedules the timer
sendNeverSchedules(a, e) ==
  IF ~a.token THEN a
  ELSE LET a1 == [a EXCEPT !.pendingEvents = Append(@, e)] IN
       IF Len(a1.pendingEvents) >= BatchSize THEN flush(a1)
       ELSE a1

\* send() without the size trigger: it only schedules the timer
sendNeverFlushes(a, e) ==
  IF ~a.token THEN a
  ELSE LET a1 == [a EXCEPT !.pendingEvents = Append(@, e)] IN
       IF a1.flushTimeout = 0 THEN setTimeout(a1)
       ELSE a1

\* send() without the check for a missing token
sendQueuesWithoutToken(a, e) ==
  LET a1 == [a EXCEPT !.pendingEvents = Append(@, e)] IN
  IF Len(a1.pendingEvents) >= BatchSize THEN flush(a1)
  ELSE IF a1.flushTimeout = 0 THEN setTimeout(a1)
  ELSE a1

send(a, e) ==
  IF ~a.token THEN a
  ELSE LET a1 == [a EXCEPT !.pendingEvents = Append(@, e)] IN
       IF Len(a1.pendingEvents) >= BatchSize THEN flush(a1)
       ELSE IF a1.flushTimeout = 0 THEN setTimeout(a1)
       ELSE a1

\* a failed ingest call that puts its batch back at the head of the queue
fetchDoneRequeues(a, i, result) ==
  IF result \in {"rejected", "threw"}
  THEN [a EXCEPT !.fetches[i].status = result,
                 !.pendingEvents = a.fetches[i].events \o @]
  ELSE [a EXCEPT !.fetches[i].status = result]

\* the rest of flush() after the await: the response is 2xx, is not, or the
\* call threw; the batch is logged and dropped in every case
fetchDone(a, i, result) == [a EXCEPT !.fetches[i].status = result]

Failed == {"rejected", "threw"}

----------------------------------------------------------------------------
(* SpecAdapter: one adapter, constructed with or without a token, driven   *)
(* by send(), manual flush(), the scheduled timer and the completions of   *)
(* the ingest requests, in every interleaving.  Each send() call passes a  *)
(* fresh event, numbered nextId.                                           *)

InitAdapter ==
  /\ now = 0
  /\ builders = [r \in Requests |-> NoBuilder]
  /\ store = [c \in Contexts |-> 0]
  /\ \E token \in BOOLEAN : adapter = AxiomAdapter(token)
  /\ nextId = 0
  /\ framework = "none"
  /\ globalConfig = 0
  /\ reqs = 0
  /\ calls = << >>
  /\ scopes = << >>

ASend ==
  /\ nextId < MaxSends
  /\ Len(send(adapter, nextId + 1).fetches) <= MaxFetches
  /\ adapter' = send(adapter, nextId + 1)
  /\ nextId' = nextId + 1
  /\ UNCHANGED <<calls, scopes, now, builders, store, framework, globalConfig, reqs>>

AFlush ==
  /\ Len(flush(adapter).fetches) <= MaxFetches
  /\ adapter' = flush(adapter)
  /\ UNCHANGED <<calls, scopes, now, builders, store, nextId, framework, globalConfig, reqs>>

ATimerFires ==
  /\ \E t \in adapter.timers :
       LET fired == [adapter EXCEPT !.timers = @ \ {t}] IN
       /\ Len(flush(fired).fetches) <= MaxFetches
       /\ adapter' = flush(fired)
  /\ UNCHANGED <<calls, scopes, now, builders, store, nextId, framework, globalConfig, reqs>>

AFetchOk ==
  /\ \E i \in 1 .. Len(adapter.fetches) :
       /\ adapter.fetches[i].status = "inflight"
       /\ adapter' = fetchDone(adapter, i, "ok")
  /\ UNCHANGED <<calls, scopes, now, builders, store, nextId, framework, globalConfig, reqs>>

AFetchRejected ==
  /\ \E i \in 1 .. Len(adapter.fetches) :
       /\ adapter.fetches[i].status = "inflight"
       /\ adapter' = fetchDone(adapter, i, "rejected")
  /\ UNCHANGED <<calls, scopes, now, builders, store, nextId, framework, globalConfig, reqs>>

AFetchThrows ==
  /\ \E i \in 1 .. Len(adapter.fetches) :
       /\ adapter.fetches[i].status = "inflight"
       /\ adapter' = fetchDone(adapter, i, "threw")
  /\ UNCHANGED <<calls, scopes, now, builders, store, nextId, framework, globalConfig, reqs>>

NextAdapter ==
  \/ ASend
  \/ AFlush
  \/ ATimerFires
  \/ AFetchOk
  \/ AFetchRejected
  \/ AFetchThrows

SpecAdapter == InitAdapter /\ [][NextAdapter]_vars

----------------------------------------------------------------------------
(* Framework wrappers: middleware/next.ts, middleware/vercel.ts,           *)
(* middleware/express.ts.  A process uses one of them (framework).         *)
(* globalConfig is the module's config: initialized is FALSE while it is   *)
(* null, token says whether config.token or AXIOM_TOKEN is set, and        *)
(* shouldSample names the configured sampling function ("default" when     *)
(* none is configured; "throws" is a function that raises on the event).   *)
(* The module's adapter is null exactly while globalConfig is null.        *)

Frameworks == {"next", "vercel", "express"}

Serverless == {"next", "vercel"}

Samplers == {"default", "keepAll", "keepOnlyErrors", "dropAll", "throws"}

SamplerError == "sampling function failed"

\* the error thrown or reported by the handler of request r
ErrorOf(r) == <<"db timeout", "boom", "not found", "no route">>[r]

WrapStatus == {200, 404, 500}

NoOutcome == [kind |-> "none", status |-> 0, error |-> ""]

Returned(status) == [kind |-> "returned", status |-> status, error |-> ""]

Threw(status, error) == [kind |-> "threw", status |-> status, error |-> error]

Rejected(error) == [kind |-> "rejected", status |-> 0, error |-> error]

\* what a throwing handler leaves behind: Next.js nothing, a Vercel handler
\* no response (0) or one already sent, Express the status its final error
\* handler answers with
ThrowStatus ==
  [f \in Frameworks |->
     IF f = "next" THEN {0} ELSE IF f = "vercel" THEN {0, 200} ELSE {404, 500}]

\* a request: where its wrapper stands (pc), whether a builder was created,
\* the calls its running handler has made so far (steps) and the events
\* getCurrentEvent gave it (seen), how the handler ended, what the caller of
\* the wrapper got (result), whether the response was ended, how often
\* build() ran, the event as build() returned it (final), whether send()
\* was called, the ingest request awaited, and whether an Express handler
\* threw after it had ended the response (lateError)
IdleRequest ==
  [pc         |-> "idle",
   hasBuilder |-> FALSE,
   steps      |-> 0,
   seen       |-> {},
   handler    |-> NoOutcome,
   result     |-> NoOutcome,
   resEnded   |-> FALSE,
   builds     |-> 0,
   final      |-> createBaseEvent(0),
   kept       |-> FALSE,
   waitsFor   |-> 0,
   lateError  |-> FALSE]

\* initLogger(config): the module's globalConfig after the call
initLogger(token, shouldSample) ==
  [initialized |-> TRUE, token |-> token, shouldSample |-> shouldSample]

\* a decision that consults the default always-keep rules before the
\* configured function
shouldKeepErrorsFirst(cfg, ev, draw) ==
  IF ev.outcome = "error" \/ ev.status_code >= 500 \/ ev.error.present THEN TRUE
  ELSE IF cfg.shouldSample = "default" THEN defaultShouldSample(ev, EmptyMap, draw)
  ELSE IF cfg.shouldSample = "keepAll" THEN keepAll
  ELSE IF cfg.shouldSample = "keepOnlyErrors" THEN keepOnlyErrors(ev)
  ELSE FALSE

\* globalConfig?.shouldSample ? globalConfig.shouldSample(e) : defaultShouldSample(e)
\* ("dropAll" is a configured function that returns false for every event)
shouldKeep(cfg, ev, draw) ==
  IF cfg.shouldSample = "default" THEN defaultShouldSample(ev, EmptyMap, draw)
  ELSE IF cfg.shouldSample = "keepAll" THEN keepAll
  ELSE IF cfg.shouldSample = "keepOnlyErrors" THEN keepOnlyErrors(ev)
  ELSE FALSE

\* a finalization block that runs only when the handler returned
finalizeOnReturnOnly(kind) == kind = "returned"

\* the paths on which the serverless wrappers run their finalization block:
\* it is a finally block, so after a return and after a throw
finalizeRuns(kind) == kind \in {"returned", "threw"}

\* wideEventErrorMiddleware: the error is written on the request's event
wideEventErrorMiddleware(ev, message) ==
  [ev EXCEPT !.outcome = "error",
             !.error = [present   |-> TRUE,
                        type      |-> IF ErrorName(message) = "" THEN "Error"
                                      ELSE ErrorName(message),
                        message   |-> message,
                        stack     |-> ErrorStack(message),
                        retriable |-> FALSE]]

\* the process has loaded one wrapper module and has called initLogger with
\* one of the sampling functions of samplers, or has not called it
InitModule(frameworks, samplers) ==
  /\ now = 0
  /\ builders = [r \in Requests |-> NoBuilder]
  /\ store = [c \in Contexts |-> 0]
  /\ framework \in frameworks
  /\ \E token \in BOOLEAN, init \in BOOLEAN, sampler \in samplers :
       /\ ~init => sampler = "default"
       /\ globalConfig = [initLogger(token, sampler) EXCEPT !.initialized = init]
       /\ adapter = AxiomAdapter(token)
  /\ nextId = 0
  /\ reqs = [r \in Requests |-> IdleRequest]
  /\ calls = << >>
  /\ scopes = << >>

\* a wrapper that creates the builder and opens the scope whether the
\* logger is initialized or not
WStartAlwaysBinds(r) ==
  /\ reqs[r].pc = "idle"
  /\ IF r = 1 THEN TRUE ELSE reqs[r - 1].pc # "idle"
  /\ globalConfig' = IF framework = "vercel" /\ ~globalConfig.initialized
                     THEN initLogger(globalConfig.token, "default")
                     ELSE globalConfig
  /\ builders' = [builders EXCEPT ![r] = WideEventBuilder(r, now)]
  /\ store' = [store EXCEPT ![r] = r]
  /\ reqs' = [reqs EXCEPT ![r].pc = "handler", ![r].hasBuilder = TRUE]
  /\ UNCHANGED <<calls, scopes, now, adapter, nextId, framework>>

\* the wrapper is entered for request r (requests are numbered in their
\* order of arrival): the builder is created and the
\* handler is started inside eventStorage.run(event, ...), or, when the
\* logger is not initialized, the handler is called directly (the Vercel
\* wrapper initializes the logger itself instead)
WStart(r) ==
  LET cfg == IF framework = "vercel" /\ ~globalConfig.initialized
             THEN initLogger(globalConfig.token, "default")
             ELSE globalConfig
  IN
  /\ reqs[r].pc = "idle"
  /\ IF r = 1 THEN TRUE ELSE reqs[r - 1].pc # "idle"
  /\ globalConfig' = cfg
  /\ IF cfg.initialized
     THEN /\ builders' = [builders EXCEPT ![r] = WideEventBuilder(r, now)]
          /\ store' = [store EXCEPT ![r] = r]
          /\ reqs' = [reqs EXCEPT ![r].pc = "handler", ![r].hasBuilder = TRUE]
     ELSE /\ reqs' = [reqs EXCEPT ![r].pc = "handler"]
          /\ UNCHANGED <<builders, store>>
  /\ UNCHANGED <<calls, scopes, now, adapter, nextId, framework>>

\* the handler of request r resumes and calls enrichEvent
HEnrichEvent(r, keys) ==
  /\ reqs[r].pc = "handler"
  /\ reqs[r].steps < MaxHandlerSteps
  /\ \E key \in keys : builders' = enrichEvent(r, [business |-> [k \in {key} |-> r]])
  /\ reqs' = [reqs EXCEPT ![r].steps = @ + 1,
                          ![r].seen = @ \cup {getCurrentEvent(r)}]
  /\ UNCHANGED <<calls, scopes, now, store, adapter, nextId, framework, globalConfig>>

\* the handler of request r resumes and calls setEventError
HSetEventError(r) ==
  /\ reqs[r].pc = "handler"
  /\ reqs[r].steps < MaxHandlerSteps
  /\ builders' = setEventError(r, ErrorOf(r), Given(TRUE))
  /\ reqs' = [reqs EXCEPT ![r].steps = @ + 1,
                          ![r].seen = @ \cup {getCurrentEvent(r)}]
  /\ UNCHANGED <<calls, scopes, now, store, adapter, nextId, framework, globalConfig>>

\* the handler of request r takes long: Date.now() moves to the slow
\* threshold or past it while the handler is awaited
HTakesLong(r) ==
  /\ reqs[r].pc = "handler"
  /\ now < SlowThresholdMs
  /\ \E d \in {SlowThresholdMs, SlowThresholdMs + 1} : now' = now + d
  /\ UNCHANGED <<calls, scopes, builders, store, adapter, nextId, framework,
                 globalConfig, reqs>>

\* the handler ends with outcome out and the logger is not initialized:
\* the caller gets the handler's own result
PassThrough(r, out) ==
  /\ reqs' = [reqs EXCEPT ![r].pc = "settled",
                          ![r].steps = 0,
                          ![r].handler = out,
                          ![r].result = IF out.kind = "threw" THEN Rejected(out.error) ELSE out,
                          ![r].resEnded = (out.kind = "returned" \/ framework = "express")]
  /\ UNCHANGED <<calls, scopes, now, builders, store, adapter, nextId, framework, globalConfig>>

\* the handler of a Next.js or Vercel request ends with outcome out: status
\* or error capture, then the finalization block up to await adapter.flush()
ServerlessConcludes(r, out, draw) ==
  LET b == builders[r]
      captured == IF out.kind = "returned"
                  THEN withStatusCode(b.event, IF framework = "vercel" /\ out.status = 0
                                               THEN 200 ELSE out.status)
                  ELSE withError(b.event, out.error, Omitted)
      runs == finalizeRuns(out.kind)
      finalEvent == IF runs THEN build(captured, b.startTime, now) ELSE captured
      throws == runs /\ globalConfig.shouldSample = "throws"
      keep == runs /\ ~throws /\ shouldKeep(globalConfig, finalEvent, draw)
      sent == send(adapter, r)
      waits == IF keep THEN flushAwaits(sent) ELSE 0
      own == IF framework = "next"
             THEN IF out.kind = "threw" THEN Rejected(out.error) ELSE out
             ELSE Returned(IF out.kind = "threw" /\ out.status = 0 THEN 500 ELSE out.status)
  IN
  /\ builders' = [builders EXCEPT ![r].event = finalEvent]
  /\ adapter' = IF keep THEN flush(sent) ELSE adapter
  /\ store' = IF waits = 0 THEN [store EXCEPT ![r] = 0] ELSE store
  /\ reqs' = [reqs EXCEPT
        ![r].pc = IF waits = 0 THEN "settled" ELSE "flushing",
        ![r].steps = 0,
        ![r].handler = out,
        ![r].result = IF throws THEN Rejected(SamplerError) ELSE own,
        ![r].resEnded = IF framework = "vercel" THEN TRUE
                        ELSE ~throws /\ out.kind = "returned",
        ![r].builds = IF runs THEN @ + 1 ELSE @,
        ![r].final = finalEvent,
        ![r].kept = keep,
        ![r].waitsFor = waits]
  /\ UNCHANGED <<calls, scopes, now, nextId, framework, globalConfig>>

\* res.end is called for an Express request: by the handler (out returned,
\* with res.statusCode), or after the handler threw, by the final error
\* handler, with wideEventErrorMiddleware in the chain (mw) or not
ExpressResEnd(r, out, draw, mw) ==
  LET b == builders[r]
      ev0 == IF out.kind = "threw" /\ mw
             THEN wideEventErrorMiddleware(b.event, out.error)
             ELSE b.event
      captured == withStatusCode(ev0, out.status)
      finalEvent == build(captured, b.startTime, now)
      throws == globalConfig.shouldSample = "throws"
      keep == ~throws /\ shouldKeep(globalConfig, finalEvent, draw)
  IN
  /\ builders' = [builders EXCEPT ![r].event = finalEvent]
  /\ adapter' = IF keep THEN flush(send(adapter, r)) ELSE adapter
  /\ store' = [store EXCEPT ![r] = 0]
  /\ reqs' = [reqs EXCEPT
        ![r].pc = "settled",
        ![r].steps = 0,
        ![r].handler = out,
        ![r].result = IF throws THEN Rejected(SamplerError) ELSE Returned(out.status),
        ![r].resEnded = ~throws,
        ![r].builds = @ + 1,
        ![r].final = finalEvent,
        ![r].kept = keep]
  /\ UNCHANGED <<calls, scopes, now, nextId, framework, globalConfig>>

\* the handler of an Express request throws after it has ended the
\* response: Express passes the error to the error-handling middleware, and
\* wideEventErrorMiddleware, when it is in the chain, writes it on the event
ExpressThrowsAfterEnd(r) ==
  /\ framework = "express"
  /\ reqs[r].pc = "settled"
  /\ reqs[r].hasBuilder
  /\ reqs[r].handler.kind = "returned"
  /\ ~reqs[r].lateError
  /\ \E mw \in BOOLEAN :
       builders' = IF mw
                   THEN [builders EXCEPT
                           ![r].event = wideEventErrorMiddleware(@, ErrorOf(r))]
                   ELSE builders
  /\ reqs' = [reqs EXCEPT ![r].lateError = TRUE]
  /\ UNCHANGED <<calls, scopes, now, store, adapter, nextId, framework, globalConfig>>

Concludes(r, out, draw, mw) ==
  IF ~reqs[r].hasBuilder THEN PassThrough(r, out)
  ELSE IF framework \in Serverless THEN ServerlessConcludes(r, out, draw)
  ELSE ExpressResEnd(r, out, draw, mw)

\* the handler of request r returns a response with a status of statuses
HReturns(r, statuses) ==
  /\ reqs[r].pc = "handler"
  /\ \E status \in statuses, draw \in Draws :
       Concludes(r, Returned(status), draw, FALSE)

\* the handler of request r throws its error, leaving one of statuses behind
HThrows(r, statuses) ==
  /\ reqs[r].pc = "handler"
  /\ \E status \in statuses, draw \in Draws, mw \in BOOLEAN :
       Concludes(r, Threw(status, ErrorOf(r)), draw, mw)

IngestError == "ingest failed"

\* a flush() that lets the failure of its ingest call reach its caller
flushSettlesRaises(result) == IF result \in Failed THEN "rejected" ELSE "resolved"

\* how the promise of flush() settles once its ingest call has completed
\* with result: the call and the handling of its response are inside a
\* try whose catch logs and returns
flushSettles(result) == "resolved"

\* ingest request i completes with result: the rest of its flush() runs and,
\* in the same turn of the event loop, the wrappers awaiting that flush
\* settle; a flush() that rejected would raise from their finally block
FetchCompletes(i, result) ==
  LET woken == {r \in Requests : reqs[r].pc = "flushing" /\ reqs[r].waitsFor = i} IN
  /\ adapter.fetches[i].status = "inflight"
  /\ adapter' = fetchDone(adapter, i, result)
  /\ reqs' = [r \in Requests |->
                IF r \notin woken THEN reqs[r]
                ELSE IF flushSettles(result) = "resolved"
                  THEN [reqs[r] EXCEPT !.pc = "settled"]
                ELSE [reqs[r] EXCEPT !.pc = "settled",
                                     !.result = Rejected(IngestError)]]
  /\ store' = [c \in Contexts |-> IF c \in woken THEN 0 ELSE store[c]]
  /\ UNCHANGED <<calls, scopes, now, builders, nextId, framework, globalConfig>>

WFetchOk == \E i \in 1 .. Len(adapter.fetches) : FetchCompletes(i, "ok")

WFetchRejected == \E i \in 1 .. Len(adapter.fetches) : FetchCompletes(i, "rejected")

WFetchThrows == \E i \in 1 .. Len(adapter.fetches) : FetchCompletes(i, "threw")

(* SpecRequest: request 1 alone through the wrapper of each framework, in  *)
(* every configuration and with every way its handler can end.             *)

InitRequest == InitModule(Frameworks, Samplers)

NextRequest ==
  \/ WStart(1)
  \/ HEnrichEvent(1, Keys)
  \/ HSetEventError(1)
  \/ HTakesLong(1)
  \/ HReturns(1, WrapStatus)
  \/ HThrows(1, ThrowStatus[framework])
  \/ ExpressThrowsAfterEnd(1)
  \/ WFetchOk
  \/ WFetchRejected
  \/ WFetchThrows

SpecRequest == InitRequest /\ [][NextRequest]_vars

(* SpecWrap: MaxRequests requests interleaved through a serverless         *)
(* wrapper with the default sampling policy; a handler returns 200 or      *)
(* throws before sending anything.                                         *)

InitWrap == InitModule(Serverless, {"default"})

NextWrap ==
  \/ \E r \in Requests : WStart(r)
  \/ \E r \in Requests : HEnrichEvent(r, {"action"})
  \/ \E r \in Requests : HSetEventError(r)
  \/ \E r \in Requests : HReturns(r, {200})
  \/ \E r \in Requests : HThrows(r, {0})
  \/ WFetchOk
  \/ WFetchRejected
  \/ WFetchThrows

SpecWrap == InitWrap /\ [][NextWrap]_vars

----------------------------------------------------------------------------
(* Claims about the transport, checked under SpecAdapter *)

\* the events of s, as a set
Range(s) == {s[i] : i \in 1 .. Len(s)}

\* how many times event e occurs in sequence s
Occurrences(s, e) == Cardinality({i \in 1 .. Len(s) : s[i] = e})

\* how many times event e has been put in an ingest request
TimesSent(a, e) ==
  LET RECURSIVE sum(_)
      sum(i) == IF i = 0 THEN 0
                ELSE Occurrences(a.fetches[i].events, e) + sum(i - 1)
  IN sum(Len(a.fetches))

\* C2: every event accepted by send() is, at every moment and in every
\* interleaving of send, flush, timer and completions, either still in the
\* pending queue or in exactly one ingest request, never in both, never in
\* two requests and never in none.
C2_ExactlyOneRequest ==
  adapter.token =>
    \A e \in 1 .. nextId :
      /\ Occurrences(adapter.pendingEvents, e) + TimesSent(adapter, e) = 1
      /\ TimesSent(adapter, e) <= 1

\* two flushes are in flight at once, the second carrying events that were
\* sent during the first one's network call, and more events are queued
C2_Witness ==
  /\ adapter.token
  /\ Len(adapter.fetches) >= 2
  /\ adapter.fetches[1].status = "inflight"
  /\ adapter.fetches[2].status = "inflight"
  /\ Len(adapter.pendingEvents) > 0

\* C8: the events of an ingest request that failed (non-2xx or exception)
\* are dropped: none is ever back in pendingEvents and none is ever carried
\* by another ingest request, whatever send / flush calls follow.
C8_FailedBatchDropped ==
  \A i \in 1 .. Len(adapter.fetches) :
    adapter.fetches[i].status \in Failed =>
      \A e \in Range(adapter.fetches[i].events) :
        /\ e \notin Range(adapter.pendingEvents)
        /\ \A j \in 1 .. Len(adapter.fetches) :
             j # i => e \notin Range(adapter.fetches[j].events)

\* a request failed, and sends and a further flush followed it
C8_Witness ==
  /\ Len(adapter.fetches) >= 2
  /\ adapter.fetches[1].status \in Failed
  /\ Len(adapter.pendingEvents) > 0

\* C9: a send() that brings the queue to BatchSize events swaps the queue
\* out and issues one ingest request for exactly these events inside the
\* same call, and leaves no timer pending.
C9_FullBatchFlushesInSend ==
  [][(/\ nextId' = nextId + 1
      /\ adapter.token
      /\ Len(adapter.pendingEvents) = BatchSize - 1)
     => (/\ adapter'.pendingEvents = << >>
         /\ adapter'.fetches =
              Append(adapter.fetches,
                     [events |-> Append(adapter.pendingEvents, nextId + 1),
                      status |-> "inflight"])
         /\ adapter'.flushTimeout = 0
         /\ adapter'.timers = {})]_vars

\* a request carrying a full batch has been issued while no timer is pending
C9_Witness ==
  /\ \E i \in 1 .. Len(adapter.fetches) : Len(adapter.fetches[i].events) = BatchSize
  /\ adapter.timers = {}

\* a timer is pending exactly when flushTimeout holds its handle
TimerInv ==
  /\ Cardinality(adapter.timers) <= 1
  /\ adapter.flushTimeout # 0 <=> adapter.timers # {}
  /\ adapter.flushTimeout # 0 => adapter.timers = {adapter.flushTimeout}

\* C10: at most one scheduled-flush timer is pending at any time; a send
\* into an empty queue schedules one, a send into a queue that has a timer
\* schedules none; when the timer fires (or is cancelled by a flush) with k
\* events queued, exactly one ingest request carrying these k events is
\* issued, the queue is empty and no timer is left to fire again.
C10_OneTimerOneFlush ==
  /\ []TimerInv
  /\ [][(/\ nextId' = nextId + 1
         /\ adapter.token
         /\ Len(adapter.pendingEvents) < BatchSize - 1)
        => (/\ Cardinality(adapter'.timers) = 1
            /\ (adapter.timers # {} => adapter'.timers = adapter.timers)
            /\ adapter'.fetches = adapter.fetches)]_vars
  /\ [][(/\ nextId' = nextId
         /\ adapter.timers # {}
         /\ adapter'.timers = {})
        => (/\ adapter'.pendingEvents = << >>
            /\ adapter'.flushTimeout = 0
            /\ adapter'.fetches =
                 Append(adapter.fetches,
                        [events |-> adapter.pendingEvents, status |-> "inflight"]))]_vars

\* three events were queued under one timer and left in one ingest request
C10_Witness ==
  /\ adapter.token
  /\ adapter.timers = {}
  /\ adapter.pendingEvents = << >>
  /\ Len(adapter.fetches) = 1
  /\ adapter.fetches[1].events = <<1, 2, 3>>
  /\ nextId = 3

\* C11: flush() called when the pending queue is empty cancels any pending
\* timer, issues no ingest request and leaves the queue empty, and its caller
\* has nothing to wait for; calling it again changes nothing.  This holds in
\* every state, also while the ingest requests of earlier flushes are in
\* flight.
C11_EmptyFlushIsNoop ==
  Len(adapter.pendingEvents) = 0 =>
    LET a == flush(adapter) IN
    /\ a.fetches = adapter.fetches
    /\ a.pendingEvents = << >>
    /\ a.flushTimeout = 0
    /\ a.timers = {}
    /\ a.token = adapter.token
    /\ flushAwaits(adapter) = 0
    /\ flush(a) = a

\* the queue is empty while the ingest request of an earlier flush is still
\* in flight and another has completed: a flush called now runs beside it
C11_Witness ==
  /\ adapter.token
  /\ Len(adapter.pendingEvents) = 0
  /\ Len(adapter.fetches) = 2
  /\ adapter.fetches[1].status = "ok"
  /\ adapter.fetches[2].status = "inflight"

----------------------------------------------------------------------------
(* Claims about the wrappers and the context: C3 and C7 are checked under  *)
(* SpecWrap, C4, C5 and C6 under SpecRequest                               *)

\* C3: with requests interleaved at their await points, every
\* getCurrentEvent / enrichEvent / setEventError call of a request's handler
\* reads and writes the event of that request's own scope only: what a
\* handler saw is its own event, and every value and error written on an
\* event comes from the request that owns it.
C3_ContextIsolation ==
  \A r \in Requests :
    /\ reqs[r].seen \subseteq {IF reqs[r].hasBuilder THEN r ELSE 0}
    /\ \A k \in DOMAIN builders[r].event.business :
         builders[r].event.business[k] = r
    /\ builders[r].event.error.present =>
         builders[r].event.error.message = ErrorOf(r)

\* both scopes are open and each handler has written on its event
C3_Witness ==
  /\ reqs[1].pc = "handler"
  /\ reqs[2].pc = "handler"
  /\ reqs[1].seen = {1}
  /\ reqs[2].seen = {2}
  /\ builders[1].event.error.present
  /\ "action" \in DOMAIN builders[2].event.business

\* C4: when the handler throws e, the wrapper of a Next.js or Vercel request
\* has recorded e on the event and its result is a rejection with that same
\* e, never a normal return and never another error.
C4_HandlerErrorReraised ==
  \A r \in Requests :
    (/\ framework \in Serverless
     /\ reqs[r].pc = "settled"
     /\ reqs[r].handler.kind = "threw")
    => /\ reqs[r].result = Rejected(reqs[r].handler.error)
       /\ reqs[r].hasBuilder =>
            /\ builders[r].event.error.present
            /\ builders[r].event.error.message = reqs[r].handler.error

\* C5: the event of a request is finalized exactly once on every path by
\* which the request concludes (return, throw): build() has not run before
\* the handler ends, has run once when the request has concluded, and never
\* runs a second time.
C5_FinalizedExactlyOnce ==
  \A r \in Requests :
    reqs[r].hasBuilder =>
      /\ reqs[r].builds <= 1
      /\ reqs[r].pc \in {"idle", "handler"} => reqs[r].builds = 0
      /\ reqs[r].pc \in {"flushing", "settled"} => reqs[r].builds = 1

\* a request whose handler threw has concluded and was finalized once
C5_Witness ==
  /\ reqs[1].pc = "settled"
  /\ reqs[1].hasBuilder
  /\ reqs[1].handler.kind = "threw"
  /\ reqs[1].builds = 1
  /\ builders[1].event.error.present

\* C6: no failure of the logging pipeline reaches the user of the request:
\* the wrapper's result is a rejection only with the handler's own error,
\* a returned response is the handler's, and an Express response is ended.
C6_LoggingFailuresInvisible ==
  \A r \in Requests :
    reqs[r].pc = "settled" =>
      /\ reqs[r].result.kind = "rejected" =>
           /\ reqs[r].handler.kind = "threw"
           /\ reqs[r].result.error = reqs[r].handler.error
      /\ reqs[r].handler.kind = "returned" => reqs[r].result = reqs[r].handler
      /\ framework = "express" => reqs[r].resEnded

\* C7: in the Next.js and Vercel wrappers, with a credential configured, the
\* promise of a request whose event was kept settles only after the ingest
\* request carrying that event has completed, whatever the other requests
\* do in between.
C7_SettlesAfterIngest ==
  (framework \in Serverless /\ adapter.token) =>
    \A r \in Requests :
      (reqs[r].pc = "settled" /\ reqs[r].kept) =>
        \E i \in 1 .. Len(adapter.fetches) :
          /\ r \in Range(adapter.fetches[i].events)
          /\ adapter.fetches[i].status # "inflight"

\* request 2 was sent and settled while the ingest request of request 1,
\* issued earlier, is still in flight
C7_Witness ==
  /\ framework \in Serverless
  /\ adapter.token
  /\ reqs[2].pc = "settled"
  /\ reqs[2].kept
  /\ reqs[1].pc = "flushing"
  /\ Len(adapter.fetches) = 2
  /\ adapter.fetches[1].events = <<1>>
  /\ adapter.fetches[1].status = "inflight"
  /\ adapter.fetches[2].status \in Failed

----------------------------------------------------------------------------
(* Claims about sampling and ordering in the wrappers, checked under       *)
(* SpecRequest                                                             *)

\* how many times the event of request r is held by the adapter, queued or
\* in an ingest request
TimesHeld(a, r) == Occurrences(a.pendingEvents, r) + TimesSent(a, r)

\* C22: when a sampling function is configured, the wrapper's decision on a
\* concluded request is that function's result on the finalized event and
\* nothing else: a function that returns false drops even an event with
\* outcome "error", one that returns true keeps every event; with no
\* function configured the decision is a result of defaultShouldSample; and
\* the event is given to send() exactly when the decision was true.
C22_ConfiguredPolicyDecides ==
  \A r \in Requests :
    (reqs[r].hasBuilder /\ reqs[r].pc \in {"flushing", "settled"}) =>
      LET ev == reqs[r].final
          f == globalConfig.shouldSample
      IN
      /\ f = "keepAll" => reqs[r].kept
      /\ f = "dropAll" => ~reqs[r].kept
      /\ f = "throws" => ~reqs[r].kept
      /\ f = "keepOnlyErrors" =>
           (reqs[r].kept <=> (\/ ev.outcome = "error"
                              \/ ev.status_code >= 400
                              \/ ev.error.present))
      /\ f = "default" =>
           \E draw \in Draws :
             reqs[r].kept = defaultShouldSample(ev, EmptyMap, draw)
      /\ adapter.token =>
           TimesHeld(adapter, r) = (IF reqs[r].kept THEN 1 ELSE 0)

\* a function that returns false for every event is configured, the handler
\* threw, and the event with outcome "error" was not sent
C22_Witness ==
  /\ globalConfig.shouldSample = "dropAll"
  /\ adapter.token
  /\ reqs[1].pc = "settled"
  /\ reqs[1].hasBuilder
  /\ reqs[1].handler.kind = "threw"
  /\ builders[1].event.outcome = "error"
  /\ ~reqs[1].kept
  /\ adapter.fetches = << >>

\* C23: with the default policy and a credential, when the handler of a
\* Next.js or Vercel request throws an error with message m, the finalized
\* event has outcome "error", error.message m and error.retriable false,
\* it is kept whatever the random draw, and the adapter holds it exactly
\* once, in one ingest request.
C23_ThrownErrorKeptAndSentOnce ==
  \A r \in Requests :
    (/\ framework \in Serverless
     /\ globalConfig.shouldSample = "default"
     /\ adapter.token
     /\ reqs[r].hasBuilder
     /\ reqs[r].pc \in {"flushing", "settled"}
     /\ reqs[r].handler.kind = "threw")
    => /\ builders[r].event.outcome = "error"
       /\ builders[r].event.error.present
       /\ builders[r].event.error.message = reqs[r].handler.error
       /\ builders[r].event.error.retriable = FALSE
       /\ reqs[r].kept
       /\ TimesSent(adapter, r) = 1
       /\ Occurrences(adapter.pendingEvents, r) = 0

\* the handler of a Next.js request marked its error retriable and then
\* threw; the request has settled and its one ingest request succeeded
C23_Witness ==
  /\ framework = "next"
  /\ globalConfig.shouldSample = "default"
  /\ adapter.token
  /\ reqs[1].pc = "settled"
  /\ reqs[1].seen = {1}
  /\ reqs[1].handler.kind = "threw"
  /\ reqs[1].result = Rejected(ErrorOf(1))
  /\ Len(adapter.fetches) = 1
  /\ adapter.fetches[1] = [events |-> <<1>>, status |-> "ok"]

\* C27: when the promise of a flush() resolves, no ingest request that
\* carries events sent before that flush() is still in flight, in every
\* interleaving: a flush() that has nothing to wait for (it can be called in
\* any state and then resolves at once) finds no request in flight, and
\* when the request issued by a flush() completes, so resolving its promise,
\* every request issued before it has completed.
C27_FlushResolvesAfterEarlierSends ==
  /\ [](flushAwaits(adapter) = 0 =>
          \A i \in 1 .. Len(adapter.fetches) : adapter.fetches[i].status # "inflight")
  /\ [][\A i \in 1 .. Len(adapter.fetches) :
          (adapter.fetches[i].status = "inflight"
             /\ adapter'.fetches[i].status # "inflight") =>
            \A j \in 1 .. (i - 1) : adapter'.fetches[j].status # "inflight"]_vars

\* C29: for each concluded request the wrapper has captured the status code
\* or the error, then finalized the event (the duration is stamped on the
\* event that carries the captured status or error), then decided on the
\* finalized event (a slow request is kept by the default policy, and
\* keepOnlyErrors sees the captured status), then given the event to send()
\* only if the decision was true, then flushed (nothing stays queued, no
\* timer stays scheduled), and the wrapper has not changed the event since
\* build() returned it.
C29_CaptureBuildSampleSendFlush ==
  \A r \in Requests :
    (reqs[r].hasBuilder /\ reqs[r].pc \in {"flushing", "settled"}) =>
      LET q == reqs[r]
          fin == reqs[r].final
      IN
      /\ q.handler.kind = "returned" => fin.status_code = q.handler.status
      /\ (q.handler.kind = "threw" /\ framework \in Serverless) =>
           /\ fin.error.present
           /\ fin.error.message = q.handler.error
      /\ (q.handler.kind = "threw" /\ framework = "express") =>
           fin.status_code = q.handler.status
      /\ fin.duration_ms = now - builders[r].startTime
      /\ (globalConfig.shouldSample = "default"
            /\ fin.duration_ms > SlowThresholdMs) => q.kept
      /\ globalConfig.shouldSample = "keepOnlyErrors" =>
           q.kept = keepOnlyErrors(fin)
      /\ adapter.token =>
           /\ TimesSent(adapter, r) = (IF q.kept THEN 1 ELSE 0)
           /\ Occurrences(adapter.pendingEvents, r) = 0
           /\ adapter.timers = {}
      /\ builders[r].event = fin

\* C30: flush() never raises to its caller: a wrapper that awaited a flush()
\* whose ingest call returned a non-2xx response or threw settles with the
\* result it had before, never with an error of the ingest call, and its
\* settling changes nothing else of the request.
C30_FlushNeverRaises ==
  /\ [](\A r \in Requests : reqs[r].result.error # IngestError)
  /\ [][\A r \in Requests :
          (reqs[r].pc = "flushing" /\ reqs'[r].pc # "flushing") =>
            reqs'[r] = [reqs[r] EXCEPT !.pc = "settled"]]_vars

\* a Next.js request whose handler returned awaited the flush of its event,
\* the ingest call threw, and the request settled with the handler's
\* response
C30_Witness ==
  /\ framework = "next"
  /\ reqs[1].pc = "settled"
  /\ reqs[1].waitsFor = 1
  /\ adapter.fetches[1].status = "threw"
  /\ reqs[1].handler.kind = "returned"
  /\ reqs[1].result = reqs[1].handler

----------------------------------------------------------------------------
(* Claims about order, batch size and timers in the adapter, checked under *)
(* SpecAdapter; events are numbered in the order of their send() calls     *)

\* C31: within each ingest request the events are in the order of their
\* send() calls, an event sent earlier is never in a later-issued request
\* than an event sent after it, and the queue holds, in send order, events
\* sent after every event already in a request.
C31_BatchesFollowSendOrder ==
  /\ \A i \in 1 .. Len(adapter.fetches) :
       \A p, q \in 1 .. Len(adapter.fetches[i].events) :
         p < q => adapter.fetches[i].events[p] < adapter.fetches[i].events[q]
  /\ \A i, j \in 1 .. Len(adapter.fetches) :
       i < j => \A e \in Range(adapter.fetches[i].events),
                   f \in Range(adapter.fetches[j].events) : e < f
  /\ \A p, q \in 1 .. Len(adapter.pendingEvents) :
       p < q => adapter.pendingEvents[p] < adapter.pendingEvents[q]
  /\ \A i \in 1 .. Len(adapter.fetches) :
       \A e \in Range(adapter.fetches[i].events),
          f \in Range(adapter.pendingEvents) : e < f

\* two requests were issued, the first with two events, and a fourth event
\* is queued
C31_Witness ==
  /\ Len(adapter.fetches) = 2
  /\ adapter.fetches[1].events = <<1, 2>>
  /\ adapter.fetches[2].events = <<3>>
  /\ adapter.pendingEvents = <<4>>

\* C32: no ingest request carries more than BatchSize events, and between
\* calls, so after every send() has returned, the queue holds fewer than
\* BatchSize events, in every interleaving of send, flush, timer and
\* completions.
C32_BatchAndQueueBounded ==
  /\ \A i \in 1 .. Len(adapter.fetches) :
       Len(adapter.fetches[i].events) <= BatchSize
  /\ Len(adapter.pendingEvents) < BatchSize

\* a request with a full batch was issued by the tenth send(), and the
\* eleventh event is alone in the queue
C32_Witness ==
  /\ nextId = BatchSize + 1
  /\ Len(adapter.fetches) = 1
  /\ Len(adapter.fetches[1].events) = BatchSize
  /\ adapter.pendingEvents = <<BatchSize + 1>>

\* C36: between calls of send() and flush(), a scheduled-flush timer is
\* pending if and only if the queue is not empty: never a timer over an
\* empty queue, never a non-empty queue without a timer, with or without a
\* credential and whatever requests are in flight.
C36_TimerIffQueueNonEmpty ==
  (adapter.timers # {}) <=> (Len(adapter.pendingEvents) > 0)

\* a request is in flight, two events have been queued since and their
\* timer is pending
C36_Witness ==
  /\ Len(adapter.fetches) = 1
  /\ adapter.fetches[1].status = "inflight"
  /\ Len(adapter.pendingEvents) = 2
  /\ Cardinality(adapter.timers) = 1

----------------------------------------------------------------------------
(* SpecUser: the user field of one event in scope, under withUser, enrich  *)
(* and enrichEvent; calls logs each call with its argument.                *)

UserKeys == {"id", "subscription"}

\* the user objects and user partials a call may pass
UserPartials ==
  UNION {[D -> {"a", "b"}] : D \in (SUBSET UserKeys) \ {{}}}

InitUser == InitBuilder

UWithUser ==
  /\ Len(calls) < MaxCalls
  /\ \E u \in UserPartials :
       /\ builders' = [builders EXCEPT ![1].event = withUser(@, u)]
       /\ calls' = Append(calls, [op |-> "withUser", arg |-> u])
  /\ UNCHANGED <<scopes, now, store, adapter, nextId, framework, globalConfig, reqs>>

UEnrich ==
  /\ Len(calls) < MaxCalls
  /\ \E u \in UserPartials :
       /\ builders' = [builders EXCEPT ![1].event = enrich(@, [user |-> u])]
       /\ calls' = Append(calls, [op |-> "enrich", arg |-> u])
  /\ UNCHANGED <<scopes, now, store, adapter, nextId, framework, globalConfig, reqs>>

UEnrichEvent ==
  /\ Len(calls) < MaxCalls
  /\ \E u \in UserPartials :
       /\ builders' = enrichEvent(1, [user |-> u])
       /\ calls' = Append(calls, [op |-> "enrichEvent", arg |-> u])
  /\ UNCHANGED <<scopes, now, store, adapter, nextId, framework, globalConfig, reqs>>

NextUser ==
  \/ UWithUser
  \/ UEnrich
  \/ UEnrichEvent

SpecUser == InitUser /\ [][NextUser]_vars

\* C33: withUser(u) leaves user equal to u, the fields of the previous user
\* that u does not have being gone; enrich and enrichEvent with a user
\* partial leave the fields of the partial with the partial's values and
\* every other field of the previous user as it was; no call changes
\* anything else of the event.
C33_WithUserReplacesEnrichMerges ==
  [][calls' # calls =>
       LET c == calls'[Len(calls')]
           old == builders[1].event
           new == builders'[1].event
       IN
       /\ c.op = "withUser" => new.user = c.arg
       /\ c.op \in {"enrich", "enrichEvent"} =>
            /\ DOMAIN new.user = DOMAIN old.user \cup DOMAIN c.arg
            /\ \A k \in DOMAIN c.arg : new.user[k] = c.arg[k]
            /\ \A k \in DOMAIN old.user \ DOMAIN c.arg : new.user[k] = old.user[k]
       /\ new = [old EXCEPT !.user = new.user]]_vars

\* on a user with id and subscription, enrichEvent changed the id only and
\* kept the subscription, and then withUser with a subscription alone left
\* no id
C33_Witness ==
  /\ Len(calls) = 3
  /\ calls[1] = [op |-> "withUser", arg |-> [k \in UserKeys |-> "a"]]
  /\ calls[2] = [op |-> "enrichEvent", arg |-> [k \in {"id"} |-> "b"]]
  /\ calls[3] = [op |-> "withUser", arg |-> [k \in {"subscription"} |-> "b"]]
  /\ builders[1].event.user = [k \in {"subscription"} |-> "b"]

----------------------------------------------------------------------------
(* SpecFields: the request fields of one event under fromRequest and       *)
(* fromRawRequest, with withStatusCode, build and the clock in between;    *)
(* calls logs each call with its argument.                                 *)

\* Web API requests with or without search parameters and user-agent header
FieldRequests ==
  {[method |-> "GET", path |-> "/x", query |-> q, headers |-> h] :
     q \in {EmptyMap, [k \in {"q"} |-> "1"]},
     h \in {EmptyMap, [n \in {"user-agent"} |-> "curl"]}}

\* details objects with each optional field given or left out
FieldDetails ==
  {[method |-> "POST", path |-> "/y", query |-> q, ip |-> ip,
    userAgent |-> ua, traceId |-> Omitted] :
     q \in {Omitted, Given([k \in {"q"} |-> "2"])},
     ip \in {Omitted, Given("10.0.0.1")},
     ua \in {Omitted, Given("node")}}

InitFields ==
  /\ now = 0
  /\ builders = [r \in Requests |-> IF r = 1 THEN WideEventBuilder(1, 0) ELSE NoBuilder]
  /\ store = [c \in Contexts |-> 0]
  /\ adapter = 0
  /\ nextId = 1
  /\ framework = "none"
  /\ globalConfig = 0
  /\ reqs = 0
  /\ calls = << >>
  /\ scopes = << >>

FFromRequest ==
  /\ Len(calls) < MaxCalls
  /\ \E request \in FieldRequests :
       /\ builders' = [builders EXCEPT
                         ![1].event = fromRequest(@, request, Omitted, nextId + 1)]
       /\ calls' = Append(calls, [op |-> "fromRequest", request |-> request])
  /\ nextId' = nextId + 1
  /\ UNCHANGED <<scopes, now, store, adapter, framework, globalConfig, reqs>>

FFromRawRequest ==
  /\ Len(calls) < MaxCalls
  /\ \E details \in FieldDetails :
       /\ builders' = [builders EXCEPT ![1].event = fromRawRequest(@, details)]
       /\ calls' = Append(calls, [op |-> "fromRawRequest", details |-> details])
  /\ UNCHANGED <<scopes, now, store, adapter, nextId, framework, globalConfig, reqs>>

FWithStatusCode ==
  /\ Len(calls) < MaxCalls
  /\ \E code \in {404, 500} :
       builders' = [builders EXCEPT ![1].event = withStatusCode(@, code)]
  /\ calls' = Append(calls, [op |-> "withStatusCode"])
  /\ UNCHANGED <<scopes, now, store, adapter, nextId, framework, globalConfig, reqs>>

FBuild ==
  /\ Len(calls) < MaxCalls
  /\ builders' = [builders EXCEPT ![1].event = build(@, builders[1].startTime, now)]
  /\ calls' = Append(calls, [op |-> "build"])
  /\ UNCHANGED <<scopes, now, store, adapter, nextId, framework, globalConfig, reqs>>

NextFields ==
  \/ FFromRequest
  \/ FFromRawRequest
  \/ FWithStatusCode
  \/ FBuild
  \/ Tick

SpecFields == InitFields /\ [][NextFields]_vars

\* the request fields that a logged fromRequest / fromRawRequest call
\* supplies; a field it does not supply is Omitted
SuppliedFields(c) ==
  IF c.op = "fromRequest"
  THEN [method     |-> c.request.method,
        path       |-> c.request.path,
        query      |-> Given(c.request.query),
        ip         |-> Omitted,
        user_agent |-> HeaderGet(c.request, "user-agent")]
  ELSE [method     |-> c.details.method,
        path       |-> c.details.path,
        query      |-> c.details.query,
        ip         |-> c.details.ip,
        user_agent |-> c.details.userAgent]

\* C34: after each fromRequest / fromRawRequest call, whatever calls came
\* before, method, path, query, ip and user_agent hold the values that this
\* call supplied and a field it did not supply is absent, while duration_ms,
\* status_code and outcome are as they were.
C34_RequestFieldsLastCallWins ==
  [][(calls' # calls /\ calls'[Len(calls')].op \in {"fromRequest", "fromRawRequest"}) =>
       LET f == SuppliedFields(calls'[Len(calls')])
           old == builders[1].event
           new == builders'[1].event
       IN
       /\ new.method = f.method
       /\ new.path = f.path
       /\ new.query = f.query
       /\ new.ip = f.ip
       /\ new.user_agent = f.user_agent
       /\ new.duration_ms = old.duration_ms
       /\ new.status_code = old.status_code
       /\ new.outcome = old.outcome]_vars

----------------------------------------------------------------------------
(* SpecLive: the adapter with a credential in a process that keeps         *)
(* running: a scheduled timer that stays pending eventually fires (weak    *)
(* fairness of ATimerFires, the event loop running the setTimeout          *)
(* callback); nothing else is required to happen, in particular no manual  *)
(* flush().  send() is called only while an ingest request can still be    *)
(* issued for its event.                                                   *)

InitLive ==
  /\ InitAdapter
  /\ adapter.token

LSend ==
  /\ Len(adapter.fetches) < MaxLiveFetches
  /\ ASend

NextLive ==
  \/ LSend
  \/ AFlush
  \/ ATimerFires
  \/ AFetchOk
  \/ AFetchRejected
  \/ AFetchThrows

SpecLive == InitLive /\ [][NextLive]_vars /\ WF_vars(ATimerFires)

\* C35: every event accepted by send() with a credential configured is
\* eventually in an ingest request, given only that a pending timer
\* eventually fires: no accepted event stays in the queue forever, even if
\* flush() is never called by hand.
C35_AcceptedEventEventuallySent ==
  \A e \in 1 .. MaxSends :
    (adapter.token /\ nextId >= e) ~> (TimesSent(adapter, e) = 1)

\* two events were accepted, no request was issued by the size trigger, and
\* both have left in one ingest request
C35_Witness ==
  /\ adapter.token
  /\ nextId = 2
  /\ adapter.pendingEvents = << >>
  /\ Len(adapter.fetches) = 1
  /\ adapter.fetches[1].events = <<1, 2>>

----------------------------------------------------------------------------
(* Claims about the uninitialized logger, checked under SpecRequest        *)

\* C38: when initLogger was never called, the Next.js wrapper and the
\* Express middleware pass the request through: the handler is started once
\* (from the idle request, never again), no builder is created and no event
\* is bound, so that getCurrentEvent gives nothing and enrichEvent and
\* setEventError change no event, nothing is finalized, send() is never
\* called, and the caller gets the handler's own result.
C38_UninitializedPassesThrough ==
  /\ [](\A r \in Requests :
          (~globalConfig.initialized /\ framework \in {"next", "express"}) =>
            /\ ~reqs[r].hasBuilder
            /\ store[r] = 0
            /\ reqs[r].seen \subseteq {0}
            /\ builders[r] = NoBuilder
            /\ reqs[r].builds = 0
            /\ ~reqs[r].kept
            /\ adapter.pendingEvents = << >>
            /\ adapter.fetches = << >>
            /\ adapter.timers = {}
            /\ reqs[r].pc = "settled" =>
                 /\ reqs[r].handler.kind # "none"
                 /\ reqs[r].result =
                      IF reqs[r].handler.kind = "threw"
                      THEN Rejected(reqs[r].handler.error) ELSE reqs[r].handler)
  /\ [][\A r \in Requests :
          (reqs'[r].pc = "handler" /\ reqs[r].pc # "handler") => reqs[r].pc = "idle"]_vars

\* the handler of a Next.js request ran without the logger initialized,
\* called enrichEvent, which found no event, and returned
C38_Witness ==
  /\ framework = "next"
  /\ ~globalConfig.initialized
  /\ reqs[1].pc = "settled"
  /\ reqs[1].seen = {0}
  /\ reqs[1].handler.kind = "returned"
  /\ reqs[1].result = reqs[1].handler

----------------------------------------------------------------------------
(* SpecSingleton: the module's defaultAdapter under getAxiomAdapter and    *)
(* initAxiomAdapter.  adapter is defaultAdapter; an instance is told apart *)
(* by id, its number among the adapters constructed (nextId counts them),  *)
(* and carries the config it was constructed with; calls logs each call    *)
(* with its argument, whether it threw, and the instance it returned.      *)

\* let defaultAdapter: AxiomAdapter | null = null
NoAdapter == [id |-> 0, config |-> "none"]

\* the configs a caller may pass
AdapterConfigs == {"A", "B"}

\* new AxiomAdapter(config), the n-th instance constructed
NewAdapter(n, config) == [id |-> n, config |-> config]

\* getAxiomAdapter that constructs a new adapter whenever a config is passed
getAxiomAdapterRecreates(d, config, n) ==
  LET d1 == IF config # Omitted THEN NewAdapter(n, config[1]) ELSE d IN
  [defaultAdapter |-> d1, threw |-> d1 = NoAdapter, result |-> d1]

\* getAxiomAdapter(config?): the default adapter after the call, whether
\* the call threw, and what it returned (NoAdapter when it threw)
getAxiomAdapter(d, config, n) ==
  LET d1 == IF d = NoAdapter /\ config # Omitted THEN NewAdapter(n, config[1]) ELSE d IN
  [defaultAdapter |-> d1, threw |-> d1 = NoAdapter, result |-> d1]

\* initAxiomAdapter(config)
initAxiomAdapter(d, config, n) ==
  [defaultAdapter |-> NewAdapter(n, config), threw |-> FALSE,
   result |-> NewAdapter(n, config)]

InitSingleton ==
  /\ now = 0
  /\ builders = [r \in Requests |-> NoBuilder]
  /\ store = [c \in Contexts |-> 0]
  /\ adapter = NoAdapter
  /\ nextId = 0
  /\ framework = "none"
  /\ globalConfig = 0
  /\ reqs = 0
  /\ calls = << >>
  /\ scopes = << >>

GGetAxiomAdapter ==
  /\ Len(calls) < MaxCalls
  /\ \E config \in {Omitted} \cup {Given(c) : c \in AdapterConfigs} :
       LET out == getAxiomAdapter(adapter, config, nextId + 1) IN
       /\ adapter' = out.defaultAdapter
       /\ nextId' = IF out.defaultAdapter.id = nextId + 1 THEN nextId + 1 ELSE nextId
       /\ calls' = Append(calls, [op |-> "getAxiomAdapter", config |-> config,
                                  threw |-> out.threw, result |-> out.result])
  /\ UNCHANGED <<scopes, now, builders, store, framework, globalConfig, reqs>>

GInitAxiomAdapter ==
  /\ Len(calls) < MaxCalls
  /\ \E config \in AdapterConfigs :
       LET out == initAxiomAdapter(adapter, config, nextId + 1) IN
       /\ adapter' = out.defaultAdapter
       /\ nextId' = nextId + 1
       /\ calls' = Append(calls, [op |-> "initAxiomAdapter", config |-> Given(config),
                                  threw |-> out.threw, result |-> out.result])
  /\ UNCHANGED <<scopes, now, builders, store, framework, globalConfig, reqs>>

NextSingleton ==
  \/ GGetAxiomAdapter
  \/ GInitAxiomAdapter

SpecSingleton == InitSingleton /\ [][NextSingleton]_vars

\* C39: getAxiomAdapter raises exactly when there is no default adapter and
\* no config is passed; when a default adapter exists it returns that
\* instance whatever config is passed, constructs nothing and leaves the
\* default adapter as it is; initAxiomAdapter always constructs a new
\* adapter from its config, makes it the default and returns it.
C39_SingletonAdapter ==
  [][calls' # calls =>
       LET c == calls'[Len(calls')] IN
       /\ c.op = "getAxiomAdapter" =>
            /\ c.threw <=> (adapter = NoAdapter /\ c.config = Omitted)
            /\ adapter # NoAdapter =>
                 /\ c.result = adapter
                 /\ adapter' = adapter
                 /\ nextId' = nextId
       /\ c.op = "initAxiomAdapter" =>
            /\ ~c.threw
            /\ nextId' = nextId + 1
            /\ adapter' = NewAdapter(nextId + 1, c.config[1])
            /\ adapter' # adapter
            /\ c.result = adapter']_vars

\* the adapter was initialized with one config, getAxiomAdapter with another
\* config returned that first instance, and a second initAxiomAdapter
\* replaced it
C39_Witness ==
  /\ Len(calls) = 3
  /\ calls[1].op = "initAxiomAdapter"
  /\ calls[2].op = "getAxiomAdapter"
  /\ calls[2].config = Given("B")
  /\ calls[2].result = NewAdapter(1, "A")
  /\ calls[3].op = "initAxiomAdapter"
  /\ adapter = NewAdapter(2, "B")

====
